---- MODULE Spec2Model ----
(***************************************************************************)
(* Match scoring state machine of the padel scoreboard backend            *)
(* (src/padel_js.js): the global game_state / match_storage dictionaries  *)
(* and the handlers that mutate them (/addpoint, /subtractpoint,          *)
(* /setgamemode, /resetmatch, /matchdata, the socket 'connect' and        *)
(* 'acknowledge_side_switch' handlers).                                   *)
(*                                                                         *)
(* Wall-clock fields (matchstarttime, matchendtime, lastupdated, the      *)
(* timestamps of history entries and events, winner.matchduration,        *)
(* matchdata.matchduration) are not modelled: they are read from          *)
(* datetime.now() and no scoring decision depends on them.                *)
(*                                                                         *)
(* Strings the code formats and parses again (the set labels "6-4",       *)
(* "7-6(5)", "10-8(STB)") are sequences of one-character strings, so that *)
(* formatting and parsing are computed as the code computes them.         *)
(***************************************************************************)
EXTENDS Integers, Sequences, FiniteSets, TLC

VARIABLES
    game_state,     \* the global game_state dict
    match_storage,  \* the global match_storage dict
    response,       \* the result the last handler returned to its caller
    emitted,        \* the socket events the last handler emitted, in order
    last,           \* the last handler run, its argument and the state before it
    steps,          \* number of handler runs so far (bounds the exploration)
    client,         \* the variables, screens, timers and pending fetches of the page
    seen,           \* the last event the page handled and the client before it
    workers         \* the request threads of the server and the calls they run

vars == <<game_state, match_storage, response, emitted, last, steps, client, seen, workers>>

\* ------------------------------------------------------------------ bounds
\* Number of handler runs explored from each initial state.
MaxSteps == 3

\* Number of client callbacks explored from page load.
MaxClientSteps == 4

\* Number of requests the server's threads take up from each initial state.
MaxRequests == 2

\* Number of points posted in a match one team wins at love.
MaxPoints == 49

\* Number of sensor hits and clock ticks explored on the mode-selection screen.
MaxDetectionSteps == 5

\* ------------------------------------------------------------- text helpers
Teams == {"black", "yellow"}

\* Python None for a string-valued field, and for a dict- or list-valued field.
None == "None"
Nothing == <<>>

DigitChars == <<"0", "1", "2", "3", "4", "5", "6", "7", "8", "9">>

RECURSIVE Digits(_)
\* str(n) for a non-negative int, as a sequence of characters.
Digits(n) ==
    IF n < 10 THEN <<DigitChars[n + 1]>>
    ELSE Digits(n \div 10) \o <<DigitChars[(n % 10) + 1]>>

\* f"{a}-{b}"
Dash(a, b) == Digits(a) \o <<"-">> \o Digits(b)

\* "x" in s
Contains(s, ch) == \E i \in 1..Len(s) : s[i] = ch

RECURSIVE Split(_, _)
\* s.split(ch): the pieces of s between occurrences of ch.
Split(s, ch) ==
    IF ~Contains(s, ch) THEN <<s>>
    ELSE LET i == CHOOSE k \in 1..Len(s) :
                      s[k] = ch /\ \A j \in 1..(k - 1) : s[j] # ch
         IN  <<SubSeq(s, 1, i - 1)>> \o Split(SubSeq(s, i + 1, Len(s)), ch)

DigitValue(ch) == CHOOSE d \in 0..9 : DigitChars[d + 1] = ch

IsNumber(s) == Len(s) > 0 /\ \A i \in 1..Len(s) : \E d \in 0..9 : DigitChars[d + 1] = s[i]

RECURSIVE ToInt(_)
\* int(s) for a string of decimal digits; int() raises ValueError on any
\* other string, which no label written by the code produces: -1 stands
\* for that exception.
ToInt(s) ==
    IF ~IsNumber(s) THEN -1
    ELSE IF Len(s) = 1 THEN DigitValue(s[1])
    ELSE 10 * ToInt(SubSeq(s, 1, Len(s) - 1)) + DigitValue(s[Len(s)])

\* int(part.split("(")[0])
LeadingInt(part) == ToInt(Split(part, "(")[1])

RECURSIVE Join(_, _)
\* sep.join(list)
Join(list, sep) ==
    IF Len(list) = 0 THEN <<>>
    ELSE IF Len(list) = 1 THEN list[1]
    ELSE list[1] \o sep \o Join(Tail(list), sep)

\* ------------------------------------------------------------ initial dicts
InitialGameState ==
    [game1 |-> 0, game2 |-> 0,
     set1 |-> 0, set2 |-> 0,
     point1 |-> 0, point2 |-> 0,
     score1 |-> 0, score2 |-> 0,
     matchwon |-> FALSE,
     winner |-> Nothing,
     sethistory |-> <<>>,
     matchhistory |-> <<>>,
     shouldswitchsides |-> FALSE,
     totalgamesinset |-> 0,
     initial_switch_done |-> FALSE,
     mode |-> "normal",
     gamemode |-> None,
     scoreboard_active |-> FALSE]

InitialMatchStorage ==
    [matchcompleted |-> FALSE,
     matchdata |-> [winnerteam |-> None,
                    winnername |-> None,
                    finalsetsscore |-> Nothing,
                    detailedsets |-> <<>>,
                    totalpointswon |-> [black |-> 0, yellow |-> 0],
                    totalgameswon |-> [black |-> 0, yellow |-> 0],
                    setsbreakdown |-> <<>>,
                    matchsummary |-> Nothing],
     displayshown |-> FALSE]

\* Mutant: the reset clears the game mode and leaves scoring armed.
ResetGameStateStillActive == [InitialGameState EXCEPT !.scoreboard_active = TRUE]

\* The dict literal /resetmatch assigns to game_state.
ResetGameState ==
    [game1 |-> 0, game2 |-> 0,
     set1 |-> 0, set2 |-> 0,
     point1 |-> 0, point2 |-> 0,
     score1 |-> 0, score2 |-> 0,
     matchwon |-> FALSE,
     winner |-> Nothing,
     sethistory |-> <<>>,
     matchhistory |-> <<>>,
     shouldswitchsides |-> FALSE,
     totalgamesinset |-> 0,
     initial_switch_done |-> FALSE,
     mode |-> "normal",
     gamemode |-> None,
     scoreboard_active |-> FALSE]

\* The dict literal wipe_match_storage assigns to match_storage.
WipedMatchStorage ==
    [matchcompleted |-> FALSE,
     matchdata |-> [winnerteam |-> None,
                    winnername |-> None,
                    finalsetsscore |-> Nothing,
                    detailedsets |-> <<>>,
                    totalpointswon |-> [black |-> 0, yellow |-> 0],
                    totalgameswon |-> [black |-> 0, yellow |-> 0],
                    setsbreakdown |-> <<>>,
                    matchsummary |-> Nothing],
     displayshown |-> FALSE]

\* A handler runs on a context: the two dicts and the events emitted so far.
Ctx(gs, ms, out) == [gs |-> gs, ms |-> ms, out |-> out]

\* Sequencing of statements: Then is applied to the value of the statement
\* before it, computed once.
Bind(value, Then(_)) == CHOOSE result \in {Then(v) : v \in {value}} : TRUE

\* --------------------------------------------------------- broadcast helpers
Emit(c, event, data) == [c EXCEPT !.out = Append(@, [event |-> event, data |-> data])]

broadcast_gamestate(c) == Emit(c, "gamestateupdate", c.gs)

broadcast_pointscored(c, team, actiontype) ==
    Emit(c, "pointscored", [team |-> team, action |-> actiontype, gamestate |-> c.gs])

broadcast_sideswitch(c) ==
    Emit(c, "sideswitchrequired",
         [totalgames |-> c.gs.totalgamesinset,
          gamescore |-> Dash(c.gs.game1, c.gs.game2),
          setscore |-> Dash(c.gs.set1, c.gs.set2)])

broadcast_matchwon(c) ==
    Emit(c, "matchwon", [winner |-> c.gs.winner, matchdata |-> c.ms.matchdata])

\* ------------------------------------------------------------- side switching
\* Mutant: initial_switch_done is not looked at.
BasicSwitchDueAgain(gs) ==
    /\ gs.game1 + gs.game2 = 0
    /\ (gs.set1 + gs.set2) \in {0, 1, 2}

\* The start-of-set condition of BASIC mode.
BasicSwitchDue(gs) ==
    /\ gs.game1 + gs.game2 = 0
    /\ (gs.set1 + gs.set2) \in {0, 1, 2}
    /\ ~gs.initial_switch_done

\* Mutant: the start-of-set trigger also clears the points of the game.
trigger_basic_mode_side_switch_clears_points(c) ==
    IF c.gs.gamemode # "basic" THEN c
    ELSE IF BasicSwitchDue(c.gs)
         THEN broadcast_sideswitch(
                  [c EXCEPT !.gs.initial_switch_done = TRUE,
                            !.gs.shouldswitchsides = TRUE,
                            !.gs.totalgamesinset = 0,
                            !.gs.point1 = 0, !.gs.point2 = 0,
                            !.gs.score1 = 0, !.gs.score2 = 0])
         ELSE c

trigger_basic_mode_side_switch_if_needed(c) ==
    IF c.gs.gamemode # "basic" THEN c
    ELSE IF BasicSwitchDue(c.gs)
         THEN broadcast_sideswitch(
                  [c EXCEPT !.gs.initial_switch_done = TRUE,
                            !.gs.shouldswitchsides = TRUE,
                            !.gs.totalgamesinset = 0])
         ELSE c

\* Mutant: the switch is due after every even game.
EvenGames(total_games) == (total_games % 2) = 0

\* COMPETITION and LOCK: a switch is due after every odd game.
OddGames(total_games) == (total_games % 2) = 1

\* check_side_switch() returns a flag and updates game_state.
check_side_switch_needed(gs) ==
    IF gs.gamemode = "basic" THEN FALSE ELSE OddGames(gs.game1 + gs.game2)

check_side_switch(gs) ==
    IF gs.gamemode = "basic" THEN gs
    ELSE IF OddGames(gs.game1 + gs.game2)
         THEN [gs EXCEPT !.shouldswitchsides = TRUE,
                         !.totalgamesinset = gs.game1 + gs.game2]
         ELSE [gs EXCEPT !.shouldswitchsides = FALSE]

\* Mutant: the acknowledgment also re-arms the start-of-set switch.
acknowledge_side_switch_rearms(gs) ==
    [gs EXCEPT !.shouldswitchsides = FALSE, !.initial_switch_done = FALSE]

acknowledge_side_switch(gs) == [gs EXCEPT !.shouldswitchsides = FALSE]

\* -------------------------------------------------------------------- history
\* Mutant: the history keeps only its latest entry.
add_to_history_latest_only(gs, action, team, scorebefore, scoreafter, gamebefore, gameafter, setbefore, setafter) ==
    [gs EXCEPT !.matchhistory =
        <<[action |-> action,
           team |-> team,
           scores |-> [before |-> scorebefore, after |-> scoreafter],
           games |-> [before |-> gamebefore, after |-> gameafter],
           sets |-> [before |-> setbefore, after |-> setafter]]>>]

add_to_history(gs, action, team, scorebefore, scoreafter, gamebefore, gameafter, setbefore, setafter) ==
    [gs EXCEPT !.matchhistory =
        Append(@, [action |-> action,
                   team |-> team,
                   scores |-> [before |-> scorebefore, after |-> scoreafter],
                   games |-> [before |-> gamebefore, after |-> gameafter],
                   sets |-> [before |-> setbefore, after |-> setafter]])]

\* ----------------------------------------------------------- match statistics
\* len([h for h in matchhistory if h["action"] == action and h["team"] == team])
CountHistory(history, action, team) ==
    Cardinality({i \in 1..Len(history) :
                    history[i].action = action /\ history[i].team = team})

\* The games the label gives to black (side 1) and yellow (side 2).
LabelGames(set_score, side) == LeadingInt(Split(set_score, "-")[side])

SetBreakdown(i, set_score) ==
    [setnumber |-> i,
     blackgames |-> LabelGames(set_score, 1),
     yellowgames |-> LabelGames(set_score, 2),
     setwinner |-> IF LabelGames(set_score, 1) > LabelGames(set_score, 2)
                   THEN "black" ELSE "yellow"]

RECURSIVE BreakdownFrom(_, _)
\* The loop over enumerate(sethistory, 1), skipping labels without "-".
BreakdownFrom(sethistory, i) ==
    IF i > Len(sethistory) THEN <<>>
    ELSE (IF Contains(sethistory[i], "-")
          THEN <<SetBreakdown(i, sethistory[i])>> ELSE <<>>)
         \o BreakdownFrom(sethistory, i + 1)

calculate_match_statistics(gs) ==
    [totalpoints |-> [black |-> CountHistory(gs.matchhistory, "point", "black"),
                      yellow |-> CountHistory(gs.matchhistory, "point", "yellow")],
     totalgames |-> [black |-> CountHistory(gs.matchhistory, "game", "black"),
                     yellow |-> CountHistory(gs.matchhistory, "game", "yellow")],
     setsbreakdown |-> BreakdownFrom(gs.sethistory, 1)]

SetsDisplay(breakdown) ==
    [i \in 1..Len(breakdown) |-> Dash(breakdown[i].blackgames, breakdown[i].yellowgames)]

\* "Sets: {..} | Points: a-b | Games: c-d"
create_match_summary(stats, sets_display) ==
    <<"S", "e", "t", "s", ":", " ">> \o Join(sets_display, <<",", " ">>)
    \o <<" ", "|", " ", "P", "o", "i", "n", "t", "s", ":", " ">>
    \o Dash(stats.totalpoints.black, stats.totalpoints.yellow)
    \o <<" ", "|", " ", "G", "a", "m", "e", "s", ":", " ">>
    \o Dash(stats.totalgames.black, stats.totalgames.yellow)

\* The matchdata dict store_match_data builds from the statistics.
MatchData(winner, stats, sets_display) ==
    [winnerteam |-> winner.team,
     winnername |-> winner.teamname,
     finalsetsscore |-> winner.finalsets,
     detailedsets |-> sets_display,
     totalpointswon |-> stats.totalpoints,
     totalgameswon |-> stats.totalgames,
     setsbreakdown |-> stats.setsbreakdown,
     matchsummary |-> create_match_summary(stats, sets_display)]

store_match_data(c) ==
    IF ~c.gs.matchwon \/ c.gs.winner = Nothing THEN c
    ELSE Bind(calculate_match_statistics(c.gs),
              LAMBDA stats : Bind(SetsDisplay(stats.setsbreakdown),
              LAMBDA sets_display :
                  [c EXCEPT !.ms = [matchcompleted |-> TRUE,
                                    matchdata |-> MatchData(c.gs.winner[1], stats, sets_display),
                                    displayshown |-> FALSE]]))

wipe_match_storage(c) == [c EXCEPT !.ms = WipedMatchStorage]

\* ------------------------------------------------------------ set & match logic
TeamName(team) == IF team = "black" THEN "BLACK TEAM" ELSE "YELLOW TEAM"

RECURSIVE SumLabelGames(_, _)
\* The loop of check_match_winner over sethistory: games of one side summed
\* over the labels that contain "-".
SumLabelGames(sethistory, side) ==
    IF Len(sethistory) = 0 THEN 0
    ELSE (IF Contains(Head(sethistory), "-") THEN LabelGames(Head(sethistory), side) ELSE 0)
         + SumLabelGames(Tail(sethistory), side)

\* The winner dict check_match_winner builds.
WinnerOf(gs, team) ==
    [team |-> team,
     teamname |-> TeamName(team),
     finalsets |-> Dash(gs.set1, gs.set2),
     matchsummary |-> Join(gs.sethistory, <<",", " ">>),
     totalgameswon |-> SumLabelGames(gs.sethistory, IF team = "black" THEN 1 ELSE 2)
                       + (IF team = "black" THEN gs.game1 ELSE gs.game2)]

\* add_to_history("match", ...): scores, games and sets as they stand.
log_match(gs, team) ==
    add_to_history(gs, "match", team,
                   <<gs.score1, gs.score2>>, <<gs.score1, gs.score2>>,
                   <<gs.game1, gs.game2>>, <<gs.game1, gs.game2>>,
                   <<gs.set1, gs.set2>>, <<gs.set1, gs.set2>>)

\* The branch of check_match_winner taken once `team` holds two sets.
declare_match_winner(c, team) ==
    Bind([c.gs EXCEPT !.matchwon = TRUE, !.winner = <<WinnerOf(c.gs, team)>>],
         LAMBDA won : Bind(log_match(won, team),
         LAMBDA logged : Bind([c EXCEPT !.gs = logged],
         LAMBDA d : store_match_data(d))))

\* The number of sets that wins the match.
SetsToWin == 2

\* Mutant: only black's sets are looked at.
check_match_winner_black_only(c) ==
    IF c.gs.set1 = SetsToWin THEN declare_match_winner(c, "black") ELSE c

check_match_winner(c) ==
    IF c.gs.set1 = SetsToWin THEN declare_match_winner(c, "black")
    ELSE IF c.gs.set2 = SetsToWin THEN declare_match_winner(c, "yellow")
    ELSE c

\* Mutant: six games win the set whatever the lead.
SetWonNoLead(g, h) == g >= 6

\* Normal set win: 6 games with a 2-game lead.
SetWon(g, h) == g >= 6 /\ g - h >= 2

\* Mutant: the tie-break decision is taken in the first set only.
TiebreakDueFirstSetOnly(gs) ==
    gs.game1 = 6 /\ gs.game2 = 6 /\ gs.mode = "normal" /\ gs.set1 + gs.set2 = 0

\* Tie-break decision at 6-6 in games.
TiebreakDue(gs) == gs.game1 = 6 /\ gs.game2 = 6 /\ gs.mode = "normal"

\* Mutant: the decider at one set all is an ordinary tie-break.
TiebreakKindNoDecider(s1, s2) == "tiebreak"

\* The tie-break a 6-6 set enters, by the sets already won ("normal": none).
TiebreakKind(s1, s2) ==
    IF (s1 = 0 /\ s2 = 0) \/ (s1 = 1 /\ s2 = 0) \/ (s1 = 0 /\ s2 = 1) THEN "tiebreak"
    ELSE IF s1 = 1 /\ s2 = 1 THEN "supertiebreak"
    ELSE "normal"

\* The bookkeeping both set-ending paths share: games and side-switch flags.
StartNewSet(gs) ==
    [gs EXCEPT !.game1 = 0, !.game2 = 0,
               !.totalgamesinset = 0,
               !.shouldswitchsides = FALSE,
               !.initial_switch_done = FALSE]

\* set1 += 1 / set2 += 1
count_set(gs, team) ==
    IF team = "black" THEN [gs EXCEPT !.set1 = @ + 1] ELSE [gs EXCEPT !.set2 = @ + 1]

\* Mutant: the set is logged in matchhistory but its label is not appended.
log_set_without_label(gs, team, label) ==
    add_to_history(gs, "set", team,
                   <<gs.score1, gs.score2>>, <<0, 0>>,
                   <<gs.game1, gs.game2>>, <<0, 0>>,
                   IF team = "black" THEN <<gs.set1 - 1, gs.set2>> ELSE <<gs.set1, gs.set2 - 1>>,
                   <<gs.set1, gs.set2>>)

\* sethistory.append(label) and add_to_history("set", ...), on the dict whose
\* sets counter is already incremented.
log_set(gs, team, label) ==
    add_to_history([gs EXCEPT !.sethistory = Append(@, label)], "set", team,
                   <<gs.score1, gs.score2>>, <<0, 0>>,
                   <<gs.game1, gs.game2>>, <<0, 0>>,
                   IF team = "black" THEN <<gs.set1 - 1, gs.set2>> ELSE <<gs.set1, gs.set2 - 1>>,
                   <<gs.set1, gs.set2>>)

\* The branch of check_set_winner taken when `team` wins the set on games.
award_set(c, team) ==
    Bind(count_set(c.gs, team),
         LAMBDA counted : Bind(log_set(counted, team, Dash(counted.game1, counted.game2)),
         LAMBDA logged : Bind([c EXCEPT !.gs = StartNewSet(logged)],
         LAMBDA d : Bind(trigger_basic_mode_side_switch_if_needed(d),
         LAMBDA e : check_match_winner(e)))))

enter_tiebreak(gs) ==
    IF TiebreakKind(gs.set1, gs.set2) = "normal" THEN gs
    ELSE [gs EXCEPT !.mode = TiebreakKind(gs.set1, gs.set2),
                    !.point1 = 0, !.point2 = 0,
                    !.score1 = 0, !.score2 = 0]

check_set_winner(c) ==
    IF SetWon(c.gs.game1, c.gs.game2) THEN award_set(c, "black")
    ELSE IF SetWon(c.gs.game2, c.gs.game1) THEN award_set(c, "yellow")
    ELSE IF TiebreakDue(c.gs) THEN [c EXCEPT !.gs = enter_tiebreak(c.gs)]
    ELSE c

\* -------------------------------------------------------------- scoring logic
\* Mutant: a raw count past 3 is shown as 50 (advantage).
map_point_advantage(p) ==
    IF p = 0 THEN 0
    ELSE IF p = 1 THEN 15
    ELSE IF p = 2 THEN 30
    ELSE IF p = 3 THEN 40
    ELSE 50

\* Internal raw points (0,1,2,3,...) to the tennis-style display.
map_point(p) ==
    IF p = 0 THEN 0
    ELSE IF p = 1 THEN 15
    ELSE IF p = 2 THEN 30
    ELSE 40

set_normal_score_from_points(gs) ==
    [gs EXCEPT !.score1 = map_point(gs.point1), !.score2 = map_point(gs.point2)]

\* In the tie-break modes the display is the raw point count.
set_raw_score_from_points(gs) ==
    [gs EXCEPT !.score1 = gs.point1, !.score2 = gs.point2]

reset_points(gs) ==
    [gs EXCEPT !.point1 = 0, !.point2 = 0, !.score1 = 0, !.score2 = 0]

\* game1 += 1 / game2 += 1
count_game(gs, team) ==
    IF team = "black" THEN [gs EXCEPT !.game1 = @ + 1] ELSE [gs EXCEPT !.game2 = @ + 1]

\* Mutant: the points are not reset when the game is counted.
handle_normal_game_win_keeps_points(c, team) ==
    Bind([c EXCEPT !.gs = count_game(c.gs, team)],
         LAMBDA d : check_set_winner(d))

handle_normal_game_win(c, team) ==
    Bind([c EXCEPT !.gs = reset_points(count_game(c.gs, team))],
         LAMBDA d : check_set_winner(d))

\* f"7-6{tb_score}" / f"6-7{tb_score}", tb_score the loser's points in parentheses.
TiebreakLabel(team, point1, point2) ==
    (IF team = "black" THEN <<"7", "-", "6">> ELSE <<"6", "-", "7">>)
    \o <<"(">> \o Digits(IF team = "black" THEN point2 ELSE point1) \o <<")">>

handle_tiebreak_win(c, team) ==
    Bind(count_set(c.gs, team),
         LAMBDA counted : Bind(log_set(counted, team, TiebreakLabel(team, counted.point1, counted.point2)),
         LAMBDA logged : Bind([c EXCEPT !.gs = [reset_points(StartNewSet(logged)) EXCEPT !.mode = "normal"]],
         LAMBDA d : Bind(trigger_basic_mode_side_switch_if_needed(d),
         LAMBDA e : check_match_winner(e)))))

\* f"10-{point2}(STB)" / f"{point1}-10(STB)"
SuperTiebreakLabel(team, point1, point2) ==
    (IF team = "black" THEN <<"1", "0", "-">> \o Digits(point2)
     ELSE Digits(point1) \o <<"-", "1", "0">>)
    \o <<"(", "S", "T", "B", ")">>

\* The super tie-break leaves games and the side-switch flags but initial_switch_done.
EndSuperTiebreak(gs) ==
    [reset_points([gs EXCEPT !.initial_switch_done = FALSE]) EXCEPT !.mode = "normal"]

handle_supertiebreak_win(c, team) ==
    Bind(count_set(c.gs, team),
         LAMBDA counted : Bind(log_set(counted, team, SuperTiebreakLabel(team, counted.point1, counted.point2)),
         LAMBDA logged : Bind([c EXCEPT !.gs = EndSuperTiebreak(logged)],
         LAMBDA d : check_match_winner(d))))

\* The win thresholds of process_add_point: p the scorer's raw points after
\* the increment, q the opponent's.
\* Mutant: four points win the game whatever the lead.
GameWonNoLead(p, q) == p >= 4

GameWon(p, q) == p >= 4 /\ p - q >= 2

\* Mutant: seven points win the tie-break whatever the lead.
TiebreakWonNoLead(p, q) == p >= 7

TiebreakWon(p, q) == p >= 7 /\ p - q >= 2

\* Mutant: the super tie-break is won one point late.
SuperTiebreakWonLate(p, q) == p >= 11 /\ p - q >= 2

SuperTiebreakWon(p, q) == p >= 10 /\ p - q >= 2

\* What a handler returns to its caller; keys a result lacks read as .get() reads them.
Result(success, error, blocked, trigger_transition, matchwon, sideswitch) ==
    [success |-> success, error |-> error, blocked |-> blocked,
     trigger_transition |-> trigger_transition, matchwon |-> matchwon,
     sideswitch |-> sideswitch]

Returning(c, resp) == [gs |-> c.gs, ms |-> c.ms, out |-> c.out, resp |-> resp]

\* Mutant: the completed-match guard never fires.
MatchCompletedIgnored(gs) == FALSE

MatchCompleted(gs) == gs.matchwon

\* Mutant: the not-active guard never fires.
ScoreboardInactiveIgnored(gs) == FALSE

ScoreboardInactive(gs) == ~gs.scoreboard_active

NotActiveResult == Result(FALSE, "Scoreboard not active yet", TRUE, TRUE, FALSE, FALSE)

\* point1 += 1 / point2 += 1
count_point(gs, team) ==
    IF team = "black" THEN [gs EXCEPT !.point1 = @ + 1] ELSE [gs EXCEPT !.point2 = @ + 1]

\* The scorer's raw points and the opponent's.
Own(gs, team) == IF team = "black" THEN gs.point1 ELSE gs.point2

Opp(gs, team) == IF team = "black" THEN gs.point2 ELSE gs.point1

\* The display after a point, by the mode read before the increment.
show_points(gs) ==
    IF gs.mode = "normal" THEN set_normal_score_from_points(gs)
    ELSE set_raw_score_from_points(gs)

\* Whether the point just counted wins the game or tie-break of the mode.
PointWins(gs, team) ==
    IF gs.mode = "normal" THEN GameWon(Own(gs, team), Opp(gs, team))
    ELSE IF gs.mode = "tiebreak" THEN TiebreakWon(Own(gs, team), Opp(gs, team))
    ELSE SuperTiebreakWon(Own(gs, team), Opp(gs, team))

\* action_type of process_add_point, from the dict after the increment.
ActionType(gs, team) ==
    IF ~PointWins(gs, team) THEN "point"
    ELSE IF gs.mode = "normal" THEN "game"
    ELSE "set"

\* The mode branches of process_add_point, on the dict after the increment.
apply_win(c, team) ==
    IF ~PointWins(c.gs, team) THEN c
    ELSE IF c.gs.mode = "normal" THEN handle_normal_game_win(c, team)
    ELSE IF c.gs.mode = "tiebreak" THEN handle_tiebreak_win(c, team)
    ELSE handle_supertiebreak_win(c, team)

\* The history entry of process_add_point: skipped once the match is won.
log_point(gs, action_type, team, before) ==
    IF gs.matchwon THEN gs
    ELSE add_to_history(gs, action_type, team,
                        <<before.score1, before.score2>>, <<gs.score1, gs.score2>>,
                        <<before.game1, before.game2>>, <<gs.game1, gs.game2>>,
                        <<before.set1, before.set2>>, <<gs.set1, gs.set2>>)

\* Side switch only for normal game wins.
SwitchChecked(gs, game_just_won) == game_just_won /\ ~gs.matchwon /\ gs.mode = "normal"

side_switch_after_game(c, game_just_won) ==
    IF ~SwitchChecked(c.gs, game_just_won) THEN c
    ELSE IF check_side_switch_needed(c.gs)
         THEN broadcast_sideswitch([c EXCEPT !.gs = check_side_switch(c.gs)])
         ELSE [c EXCEPT !.gs = check_side_switch(c.gs)]

\* The broadcasts that end process_add_point.
broadcast_point(c, team, action_type) ==
    IF c.gs.matchwon THEN broadcast_matchwon(c)
    ELSE broadcast_pointscored(c, team, action_type)

\* The scoring part of process_add_point, past the two guards.
score_point(c, team) ==
    Bind([c EXCEPT !.gs = show_points(count_point(c.gs, team))],
         LAMBDA counted : Bind(apply_win(counted, team),
         LAMBDA won : Bind([won EXCEPT !.gs = log_point(won.gs, ActionType(counted.gs, team), team, c.gs)],
         LAMBDA logged : Bind(side_switch_after_game(logged, ActionType(counted.gs, team) = "game"),
         LAMBDA switched : Bind(broadcast_gamestate(switched),
         LAMBDA sent : Bind(broadcast_point(sent, team, ActionType(counted.gs, team)),
         LAMBDA done :
             Returning(done, Result(TRUE, None, FALSE, FALSE, done.gs.matchwon,
                                    SwitchChecked(logged.gs, ActionType(counted.gs, team) = "game")
                                    /\ check_side_switch_needed(logged.gs)))))))))

process_add_point(c, team) ==
    IF MatchCompleted(c.gs)
    THEN Returning(c, Result(FALSE, "Match is already completed", FALSE, FALSE, TRUE, FALSE))
    ELSE IF ScoreboardInactive(c.gs) THEN Returning(c, NotActiveResult)
    ELSE score_point(c, team)

\* Mutant: no floor at 0.
DecrementNoFloor(p) == p - 1

\* max(0, p - 1)
Decrement(p) == IF p - 1 > 0 THEN p - 1 ELSE 0

\* point1 = max(0, point1 - 1) / point2 = max(0, point2 - 1)
uncount_point(gs, team) ==
    IF team = "black" THEN [gs EXCEPT !.point1 = Decrement(@)]
    ELSE [gs EXCEPT !.point2 = Decrement(@)]

\* add_to_history("point_subtract", ...)
log_subtract(gs, team, before) ==
    add_to_history(gs, "point_subtract", team,
                   <<before.score1, before.score2>>, <<gs.score1, gs.score2>>,
                   <<before.game1, before.game2>>, <<gs.game1, gs.game2>>,
                   <<before.set1, before.set2>>, <<gs.set1, gs.set2>>)

\* The correcting part of process_subtract_point, past the two guards.
subtract_point(c, team) ==
    Bind(show_points(uncount_point(c.gs, team)),
         LAMBDA shown : Bind([c EXCEPT !.gs = log_subtract(shown, team, c.gs)],
         LAMBDA logged : Bind(broadcast_gamestate(logged),
         LAMBDA sent : Returning(sent, Result(TRUE, None, FALSE, FALSE, FALSE, FALSE)))))

process_subtract_point(c, team) ==
    IF MatchCompleted(c.gs)
    THEN Returning(c, Result(FALSE, "Cannot subtract points from completed match",
                             FALSE, FALSE, FALSE, FALSE))
    ELSE IF ScoreboardInactive(c.gs) THEN Returning(c, NotActiveResult)
    ELSE subtract_point(c, team)

\* ------------------------------------------------------------------- handlers
\* Mutant: the null the client posts after a reset is taken as a mode.
ValidModesWithNull == {"basic", "competition", "lock", "null"}

\* if mode not in ["basic", "competition", "lock"]
ValidModes == {"basic", "competition", "lock"}

\* What a client can post to /setgamemode: a valid mode, or anything else
\* (the client posts null after a reset).
PostedModes == ValidModes \cup {"null"}

\* The HTTP status the point routes give a result.
PointStatus(resp) == IF resp.success \/ resp.blocked THEN 200 ELSE 400

Reply(body, status) == [body |-> body, status |-> status]

\* Mutant: selecting BASIC mode does not signal the initial switch.
set_game_mode_without_switch(c, mode) ==
    IF mode \notin ValidModes
    THEN Returning(c, Result(FALSE, "Invalid mode", FALSE, FALSE, FALSE, FALSE))
    ELSE Bind([c EXCEPT !.gs.gamemode = mode, !.gs.scoreboard_active = TRUE],
              LAMBDA armed : Bind(broadcast_gamestate(armed),
              LAMBDA sent : Returning(sent, Result(TRUE, None, FALSE, FALSE, FALSE, FALSE))))

\* /setgamemode
set_game_mode(c, mode) ==
    IF mode \notin ValidModes
    THEN Returning(c, Result(FALSE, "Invalid mode", FALSE, FALSE, FALSE, FALSE))
    ELSE Bind([c EXCEPT !.gs.gamemode = mode, !.gs.scoreboard_active = TRUE],
              LAMBDA armed : Bind(IF mode = "basic"
                                  THEN trigger_basic_mode_side_switch_if_needed(armed)
                                  ELSE armed,
              LAMBDA switched : Bind(broadcast_gamestate(switched),
              LAMBDA sent : Returning(sent, Result(TRUE, None, FALSE, FALSE, FALSE, FALSE)))))

\* Mutant: the reset keeps the selected game mode armed.
reset_match_keeps_mode(c) ==
    Returning(broadcast_gamestate(wipe_match_storage(
                  [c EXCEPT !.gs = [ResetGameState EXCEPT
                                      !.gamemode = c.gs.gamemode,
                                      !.scoreboard_active = c.gs.scoreboard_active]])),
              Result(TRUE, None, FALSE, FALSE, FALSE, FALSE))

\* /resetmatch
reset_match(c) ==
    Returning(broadcast_gamestate(wipe_match_storage([c EXCEPT !.gs = ResetGameState])),
              Result(TRUE, None, FALSE, FALSE, FALSE, FALSE))

\* /matchdata
get_match_data(c) ==
    IF c.ms.matchcompleted
    THEN Returning([c EXCEPT !.ms.displayshown = TRUE],
                   Result(TRUE, None, FALSE, FALSE, FALSE, FALSE))
    ELSE Returning(c, Result(FALSE, "No completed match data available",
                             FALSE, FALSE, FALSE, FALSE))

\* socket 'connect'
handle_connect(c) ==
    Bind(Emit(c, "gamestateupdate", c.gs),
         LAMBDA greeted : IF greeted.gs.gamemode = "basic"
                          THEN trigger_basic_mode_side_switch_if_needed(greeted)
                          ELSE greeted)

\* socket 'acknowledge_side_switch'
handle_acknowledge_side_switch(c) ==
    Emit([c EXCEPT !.gs = acknowledge_side_switch(c.gs)], "side_switch_acknowledged", TRUE)

\* ---------------------------------------------------------- reachable states
\* The dicts after `team` posts one point to /addpoint.
PlayPoint(c, team) ==
    Bind(process_add_point(Ctx(c.gs, c.ms, <<>>), team), LAMBDA r : Ctx(r.gs, r.ms, <<>>))

RECURSIVE Replay(_, _)
\* The dicts after the points of `script` (a sequence of teams) are posted
\* to /addpoint one after the other (first half, then second half).
Replay(c, script) ==
    IF Len(script) = 0 THEN c
    ELSE IF Len(script) = 1 THEN PlayPoint(c, script[1])
    ELSE LET half == Len(script) \div 2
         IN  CHOOSE after \in {Replay(mid, SubSeq(script, half + 1, Len(script))) :
                                  mid \in {Replay(c, SubSeq(script, 1, half))}} : TRUE

Other(team) == IF team = "black" THEN "yellow" ELSE "black"

Rep(team, n) == [i \in 1..n |-> team]

\* `team` wins n games to love.
Games(team, n) == Rep(team, 4 * n)

\* The script with the two teams exchanged.
Mirror(script) == [i \in DOMAIN script |-> Other(script[i])]

\* Sets already played: black 6-0, yellow 6-0, one each.
SetBlack == Games("black", 6)

SetYellow == Games("yellow", 6)

\* Games of the current set, black one point from the 6th or 7th game.
At54 == Games("black", 5) \o Games("yellow", 4) \o <<"black", "black", "black", "yellow", "yellow">>

At55 == Games("black", 5) \o Games("yellow", 5) \o <<"black", "black", "black", "yellow", "yellow">>

At65 == Games("black", 5) \o Games("yellow", 5) \o Games("black", 1) \o <<"black", "black", "black">>

At56 == Games("yellow", 5) \o Games("black", 5) \o Games("yellow", 1) \o <<"black", "black", "black">>

At66 == Games("black", 5) \o Games("yellow", 5) \o Games("black", 1) \o Games("yellow", 1)

\* Points played to reach each starting state, black being the team about
\* to win a game, a set, a tie-break or the match.
BlackScripts ==
    {<<>>,
     <<"black", "black", "black", "yellow", "yellow", "yellow">>,
     At54, At55, At65, At56,
     At66 \o Rep("black", 6) \o Rep("yellow", 5),
     At66 \o Rep("black", 6) \o Rep("yellow", 6),
     SetBlack \o At54, SetBlack \o At65, SetBlack \o At56,
     SetBlack \o At66 \o Rep("black", 6) \o Rep("yellow", 5),
     SetYellow \o At54,
     SetYellow \o At66 \o Rep("black", 6) \o Rep("yellow", 5),
     SetBlack \o SetYellow \o At54, SetBlack \o SetYellow \o At65,
     SetBlack \o SetYellow \o At56,
     SetBlack \o SetYellow \o At66 \o Rep("black", 9) \o Rep("yellow", 8),
     SetBlack \o SetYellow \o At66 \o Rep("black", 9) \o Rep("yellow", 9),
     SetBlack \o SetYellow \o At66 \o Rep("black", 9) \o Rep("yellow", 9)
         \o <<"black", "yellow">>}

\* The dicts at process start.
Constructed == Ctx(InitialGameState, InitialMatchStorage, <<>>)

\* The dicts after `mode` is selected at process start and `script` is played.
Played(mode, script) ==
    Bind(set_game_mode(Constructed, mode), LAMBDA r : Replay(Ctx(r.gs, r.ms, <<>>), script))

\* States the server reaches: the dicts at process start, and the dicts after
\* a mode is selected and a script is played (black about to win in BASIC
\* mode, yellow about to win in COMPETITION mode).
Checkpoints ==
    {Constructed}
    \cup {Played("basic", s) : s \in BlackScripts}
    \cup {Played("competition", Mirror(s)) : s \in BlackScripts}

\* ------------------------------------------------------ the scoreboard client
\* The browser client that routes sensor events by the screen shown. Times
\* are Date.now() readings in milliseconds.
SENSOR_DEBOUNCE_MS == 150

DUAL_SENSOR_WINDOW == 300

\* The delays of the client's setTimeout and setInterval calls.
ModeSelectionDelay == 500

ScoreboardDelay == 500

WinnerDismissDelay == 30000

\* Date.now() when the page is loaded.
PageLoadTime == 2 * WinnerDismissDelay

RemoveAt(s, i) == SubSeq(s, 1, i - 1) \o SubSeq(s, i + 1, Len(s))

\* setTimeout(callback, delay): the timer is pending under the id handed out.
setTimeout(k, kind, delay) ==
    [k EXCEPT !.timers = Append(@, [id |-> k.nextTimer, kind |-> kind, due |-> k.now + delay]),
              !.nextTimer = @ + 1]

\* clearTimeout(id): no effect on a null id or a timer that has fired.
clearTimeout(k, id) ==
    LET Kept(t) == t.id # id
    IN  [k EXCEPT !.timers = SelectSeq(@, Kept)]

\* await fetch(...): the function is suspended until the server has answered.
Await(k, fn, request, mode) ==
    [k EXCEPT !.tasks = Append(@, [fn |-> fn, request |-> request, mode |-> mode])]

\* The client's variables after the page is loaded and the splash screen shown.
InitialClient ==
    [now |-> PageLoadTime,
     lastSensorTime |-> [black |-> 0, yellow |-> 0],
     splashActive |-> TRUE,
     splashDismissed |-> FALSE,
     modeSelectionVisible |-> FALSE,
     winnerVisible |-> FALSE,
     isScoreboardActive |-> FALSE,
     gameMode |-> None,
     pendingSensorEvents |-> <<>>,
     modeDetectionTimer |-> 0,
     winnerDismissTimeout |-> 0,
     feedback |-> None,
     timers |-> <<>>,
     nextTimer |-> 1,
     tasks |-> <<>>]

clearWinnerTimeout_forgets(k) == [k EXCEPT !.winnerDismissTimeout = 0]

clearWinnerTimeout(k) ==
    IF k.winnerDismissTimeout # 0
    THEN [clearTimeout(k, k.winnerDismissTimeout) EXCEPT !.winnerDismissTimeout = 0]
    ELSE k

\* resetMatchAndGoToSplash() up to its first await: POST /resetmatch is sent.
resetMatchAndGoToSplash(k) == Await(k, "resetMatchAndGoToSplash", "resetmatch", None)

\* resetMatchAndGoToSplash() past its second await: the local state is reset
\* and the splash screen shown.
reset_local_state(k) ==
    Bind([k EXCEPT !.gameMode = None,
                   !.isScoreboardActive = FALSE,
                   !.pendingSensorEvents = <<>>,
                   !.lastSensorTime = [black |-> 0, yellow |-> 0]],
         LAMBDA cleared : Bind(clearTimeout(cleared, cleared.modeDetectionTimer),
         LAMBDA stopped : [stopped EXCEPT !.winnerVisible = FALSE,
                                          !.modeSelectionVisible = FALSE,
                                          !.splashDismissed = FALSE,
                                          !.splashActive = TRUE]))

dismissSplash_unguarded(k) == setTimeout(k, "showModeSelection", ModeSelectionDelay)

dismissSplash(k) ==
    IF k.splashDismissed THEN k
    ELSE setTimeout([k EXCEPT !.splashDismissed = TRUE, !.splashActive = FALSE],
                    "showModeSelection", ModeSelectionDelay)

showModeSelection(k) ==
    [k EXCEPT !.modeSelectionVisible = TRUE,
              !.pendingSensorEvents = <<>>,
              !.isScoreboardActive = FALSE]

\* selectMode(mode) up to its await: gameMode is set and POST /setgamemode sent.
selectMode(k, mode) == Await([k EXCEPT !.gameMode = mode], "selectMode", "setgamemode", mode)

\* selectMode(mode) past its await: the scoreboard is activated after a delay.
hide_mode_selection(k) == setTimeout(k, "activateScoreboard", ScoreboardDelay)

\* The callback of that delay.
activate_scoreboard(k) ==
    [k EXCEPT !.modeSelectionVisible = FALSE, !.isScoreboardActive = TRUE]

\* pendingSensorEvents.some(e => e.team === team)
HasTeam(events, team) == \E i \in 1..Len(events) : events[i].team = team

detectModeFromSensor(k, team, timestamp) ==
    Bind([k EXCEPT !.pendingSensorEvents = Append(@, [team |-> team, time |-> timestamp])],
         LAMBDA pushed :
             IF HasTeam(pushed.pendingSensorEvents, "black")
                /\ HasTeam(pushed.pendingSensorEvents, "yellow")
             THEN selectMode([clearTimeout(pushed, pushed.modeDetectionTimer)
                                 EXCEPT !.pendingSensorEvents = <<>>], "competition")
             ELSE IF Len(pushed.pendingSensorEvents) = 1
                  THEN Bind(clearTimeout(pushed, pushed.modeDetectionTimer),
                            LAMBDA stopped :
                                [setTimeout(stopped, "modeDetection", DUAL_SENSOR_WINDOW)
                                    EXCEPT !.modeDetectionTimer = stopped.nextTimer])
                  ELSE pushed)

\* The callback of the mode-detection timer.
mode_detection_timeout(k) ==
    IF Len(k.pendingSensorEvents) = 1
    THEN selectMode([k EXCEPT !.pendingSensorEvents = <<>>], "basic")
    ELSE k

\* showClickFeedback(team) and showToast(...): the team's feedback is pulsed.
showClickFeedback(k, team) == [k EXCEPT !.feedback = team]

displayWinnerWithData_no_timer(k) ==
    clearWinnerTimeout([k EXCEPT !.winnerVisible = TRUE, !.isScoreboardActive = FALSE])

displayWinnerWithData(k) ==
    Bind(clearWinnerTimeout([k EXCEPT !.winnerVisible = TRUE, !.isScoreboardActive = FALSE]),
         LAMBDA shown : [setTimeout(shown, "winnerDismiss", WinnerDismissDelay)
                            EXCEPT !.winnerDismissTimeout = shown.nextTimer])

\* if (now - lastSensorTime[team] < SENSOR_DEBOUNCE_MS)
Debounced(k, team) == k.now - k.lastSensorTime[team] < SENSOR_DEBOUNCE_MS

route_sensor_input_splash_first(k, team) ==
    IF k.splashActive THEN dismissSplash(k)
    ELSE IF k.winnerVisible THEN resetMatchAndGoToSplash(clearWinnerTimeout(k))
    ELSE IF k.modeSelectionVisible THEN detectModeFromSensor(k, team, k.now)
    ELSE IF k.isScoreboardActive /\ k.gameMode # None THEN showClickFeedback(k, team)
    ELSE k

\* The routing part of handleSensorInput, past the debounce check.
route_sensor_input(k, team) ==
    IF k.winnerVisible THEN resetMatchAndGoToSplash(clearWinnerTimeout(k))
    ELSE IF k.splashActive THEN dismissSplash(k)
    ELSE IF k.modeSelectionVisible THEN detectModeFromSensor(k, team, k.now)
    ELSE IF k.isScoreboardActive /\ k.gameMode # None THEN showClickFeedback(k, team)
    ELSE k

handleSensorInput(k, team) ==
    IF Debounced(k, team) THEN k
    ELSE route_sensor_input([k EXCEPT !.lastSensorTime[team] = k.now], team)

\* addPointManual(team) up to its await: POST /addpoint is sent.
addPointManual(k, team) == Await(k, "addPointManual", "addpoint", team)

\* The click listener of a team section.
team_click(k, team) ==
    IF k.winnerVisible THEN resetMatchAndGoToSplash(k)
    ELSE IF k.splashActive THEN dismissSplash(k)
    ELSE IF k.modeSelectionVisible THEN selectMode(k, "basic")
    ELSE IF k.isScoreboardActive THEN addPointManual(k, team)
    ELSE k

\* The click listener of the winner screen, outside its buttons.
winner_screen_click(k) ==
    IF k.winnerVisible THEN resetMatchAndGoToSplash(clearWinnerTimeout(k)) ELSE k

\* resetMatch() and newMatch(), the handlers of the Reset and New Match buttons.
newMatch(k) == resetMatchAndGoToSplash(k)

\* What the page has seen so far: the last event handled, the client before
\* it, and when each team's last admitted sensor event arrived (-1: never).
InitialSeen ==
    [op |-> "load", team |-> None, pre |-> InitialClient,
     accepted |-> [black |-> -1, yellow |-> -1],
     before |-> [black |-> -1, yellow |-> -1]]

\* ------------------------------------------------------- the request threads
\* The server runs each request in a thread of its own (async_mode
\* 'threading') and the handlers take no lock: a thread can be suspended
\* between any two statements, and within `d[k] += 1` between the load and
\* the store.
Workers == {1, 2}

Calls == {"addpoint", "subtractpoint"}

\* score_before, game_before and set_before of a handler.
Before(gs) ==
    [score1 |-> gs.score1, score2 |-> gs.score2,
     game1 |-> gs.game1, game2 |-> gs.game2,
     set1 |-> gs.set1, set2 |-> gs.set2]

\* A thread with no request.
IdleWorker ==
    [pc |-> "idle", op |-> None, team |-> None, mode |-> None, tmp |-> 0,
     p1 |-> 0, p2 |-> 0, before |-> Before(InitialGameState), action |-> None]

\* The threads, the dicts when the earliest call still counted was taken up,
\* the calls taken up since, and whether two of them overlapped.
IdleWorkers ==
    [thread |-> [w \in Workers |-> IdleWorker],
     origin |-> Constructed,
     calls |-> <<>>,
     overlapped |-> FALSE]

\* The guards and the first reads of process_add_point and
\* process_subtract_point.
take_up(gs, op, team) ==
    IF MatchCompleted(gs) \/ ScoreboardInactive(gs) THEN IdleWorker
    ELSE [IdleWorker EXCEPT !.pc = "load", !.op = op, !.team = team,
                            !.mode = gs.mode, !.before = Before(gs)]

\* The load of point1 += 1, point2 += 1 and of max(0, point - 1).
load_point(gs, t) == [t EXCEPT !.pc = "store", !.tmp = Own(gs, t.team)]

SetOwn(gs, team, p) ==
    IF team = "black" THEN [gs EXCEPT !.point1 = p] ELSE [gs EXCEPT !.point2 = p]

\* The store of the same statement.
store_point(gs, t) ==
    IF t.op = "addpoint" THEN SetOwn(gs, t.team, t.tmp + 1)
    ELSE SetOwn(gs, t.team, Decrement(t.tmp))

\* The display of the mode the handler read before the increment.
show_points_of(gs, mode) ==
    IF mode = "normal" THEN set_normal_score_from_points(gs)
    ELSE set_raw_score_from_points(gs)

\* The win test of process_add_point on its locals p1, p2 and mode.
LocalWin(t) ==
    LET own == IF t.team = "black" THEN t.p1 ELSE t.p2
        opp == IF t.team = "black" THEN t.p2 ELSE t.p1
    IN  IF t.mode = "normal" THEN GameWon(own, opp)
        ELSE IF t.mode = "tiebreak" THEN TiebreakWon(own, opp)
        ELSE SuperTiebreakWon(own, opp)

\* p1 = game_state["point1"]; p2 = game_state["point2"], and where the
\* handler goes from there.
read_points(gs, t) ==
    Bind([t EXCEPT !.p1 = gs.point1, !.p2 = gs.point2],
         LAMBDA r : [r EXCEPT !.pc = IF ~LocalWin(r) THEN "log"
                                     ELSE IF r.mode = "normal" THEN "count" ELSE "tiebreak",
                              !.action = IF ~LocalWin(r) THEN "point"
                                         ELSE IF r.mode = "normal" THEN "game" ELSE "set"])

\* The end of process_add_point: history, side switch, broadcasts.
finish_add(c, t) ==
    Bind([c EXCEPT !.gs = log_point(c.gs, t.action, t.team, t.before)],
         LAMBDA logged : Bind(side_switch_after_game(logged, t.action = "game"),
         LAMBDA switched : Bind(broadcast_gamestate(switched),
         LAMBDA sent : Bind(broadcast_point(sent, t.team, t.action),
         LAMBDA done :
             Returning(done, Result(TRUE, None, FALSE, FALSE, done.gs.matchwon,
                                    SwitchChecked(logged.gs, t.action = "game")
                                    /\ check_side_switch_needed(logged.gs)))))))

\* The end of process_subtract_point: display, history, broadcast.
finish_subtract(c, t) ==
    Bind(show_points(c.gs),
         LAMBDA shown : Bind([c EXCEPT !.gs = log_subtract(shown, t.team, t.before)],
         LAMBDA logged : Bind(broadcast_gamestate(logged),
         LAMBDA sent : Returning(sent, Result(TRUE, None, FALSE, FALSE, FALSE, FALSE)))))

\* The call run whole, as when no other thread runs.
Serial(c, call) ==
    IF call.op = "addpoint" THEN process_add_point(Ctx(c.gs, c.ms, <<>>), call.team)
    ELSE process_subtract_point(Ctx(c.gs, c.ms, <<>>), call.team)

\* ----------------------------------------------------------- the state machine
Init ==
    \E c \in Checkpoints :
        /\ game_state = c.gs
        /\ match_storage = c.ms
        /\ response = Reply(Result(TRUE, None, FALSE, FALSE, FALSE, FALSE), 200)
        /\ emitted = <<>>
        /\ last = [op |-> "init", arg |-> None, pre |-> c.gs, pre_storage |-> c.ms]
        /\ steps = 0
        /\ client = InitialClient
        /\ seen = InitialSeen
        /\ workers = IdleWorkers

Here == Ctx(game_state, match_storage, <<>>)

\* One handler ran: r is what it left, op and arg name the call.
Ran(r, op, arg) ==
    /\ steps < MaxSteps
    /\ steps' = steps + 1
    /\ game_state' = r.gs
    /\ match_storage' = r.ms
    /\ emitted' = r.out
    /\ last' = [op |-> op, arg |-> arg, pre |-> game_state, pre_storage |-> match_storage]
    /\ UNCHANGED <<client, seen, workers>>

AddPoint ==
    \E team \in Teams :
        \E r \in {process_add_point(Here, team)} :
            Ran(r, "addpoint", team) /\ response' = Reply(r.resp, PointStatus(r.resp))

SubtractPoint ==
    \E team \in Teams :
        \E r \in {process_subtract_point(Here, team)} :
            Ran(r, "subtractpoint", team) /\ response' = Reply(r.resp, PointStatus(r.resp))

SetGameMode ==
    \E mode \in PostedModes :
        \E r \in {set_game_mode(Here, mode)} :
            Ran(r, "setgamemode", mode)
            /\ response' = Reply(r.resp, IF r.resp.success THEN 200 ELSE 400)

ResetMatch ==
    \E r \in {reset_match(Here)} :
        Ran(r, "resetmatch", None) /\ response' = Reply(r.resp, 200)

GetMatchData ==
    \E r \in {get_match_data(Here)} :
        Ran(r, "matchdata", None)
        /\ response' = Reply(r.resp, IF r.resp.success THEN 200 ELSE 404)

Connect ==
    \E r \in {handle_connect(Here)} :
        Ran(r, "connect", None) /\ UNCHANGED response

AcknowledgeSideSwitch ==
    \E r \in {handle_acknowledge_side_switch(Here)} :
        Ran(r, "acknowledge_side_switch", None) /\ UNCHANGED response

Next ==
    \/ AddPoint
    \/ SubtractPoint
    \/ SetGameMode
    \/ ResetMatch
    \/ GetMatchData
    \/ Connect
    \/ AcknowledgeSideSwitch

Spec == Init /\ [][Next]_vars

\* Matches in which points are only ever added: a mode is selected and
\* /addpoint is posted, never /subtractpoint.
PointsNext ==
    \/ AddPoint
    \/ SetGameMode

PointsOnly == Init /\ [][PointsNext]_vars

\* ------------------------------------------------- the client's state machine
\* The modes the page selects.
ClientModes == {"basic", "competition"}

\* The server when the page is loaded: freshly started, or with a mode
\* selected by a page shown before and no point played yet.
Armed == [mode \in ClientModes |-> Played(mode, <<>>)]

ClientServers == {Constructed} \cup {Armed[mode] : mode \in ClientModes}

\* The server of a match in which black is one point from winning 6-0 6-0.
MatchPoint ==
    [mode \in ClientModes |->
        Played(mode, SetBlack \o Games("black", 5) \o Rep("black", 3))]

ClientInit ==
    \E c \in ClientServers :
        /\ game_state = c.gs
        /\ match_storage = c.ms
        /\ response = Reply(Result(TRUE, None, FALSE, FALSE, FALSE, FALSE), 200)
        /\ emitted = <<>>
        /\ last = [op |-> "init", arg |-> None, pre |-> c.gs, pre_storage |-> c.ms]
        /\ steps = 0
        /\ client = InitialClient
        /\ seen = InitialSeen
        /\ workers = IdleWorkers

\* One callback of the page ran: k is the client it left.
Callback(k, op, team) ==
    /\ client' = k
    /\ UNCHANGED workers
    /\ seen' = [seen EXCEPT !.op = op, !.team = team, !.pre = client,
                            !.before = seen.accepted]

\* The callback of an input from outside the page: a socket event, or time
\* that passes with nothing due.
Handled(k, op, team) ==
    /\ steps < MaxClientSteps
    /\ steps' = steps + 1
    /\ Callback(k, op, team)

\* The callback of work the page itself has pending: a timer that is due, a
\* fetch that is answered.
Continued(k, op, team) ==
    /\ UNCHANGED steps
    /\ Callback(k, op, team)

ServerIdle == UNCHANGED <<game_state, match_storage, response, emitted, last, workers>>

\* socket.on('pointscored'): a sensor event of `team` reaches the page.
SensorEvent ==
    \E team \in Teams :
        /\ steps < MaxClientSteps
        /\ steps' = steps + 1
        /\ client' = handleSensorInput(client, team)
        /\ seen' = [op |-> "pointscored", team |-> team, pre |-> client,
                    accepted |-> IF Debounced(client, team) THEN seen.accepted
                                 ELSE [seen.accepted EXCEPT ![team] = client.now],
                    before |-> seen.accepted]
        /\ ServerIdle

\* The page has no request unanswered and no timer pending.
Quiescent(k) == k.tasks = <<>> /\ k.timers = <<>>

\* Some event of that name is among the events emitted.
Emitted(out, event) == \E i \in 1..Len(out) : out[i].event = event

\* socket.on('matchwon'): the match started on the server is played to its
\* last point, which takes longer than any timer or request of the page, and
\* the server's matchwon event shows the winner screen. The gamestateupdate
\* event before it sends GET /getmatchdata, a path the server does not
\* serve, so that fetchMatchDataAndDisplay displays nothing.
MatchWonEvent ==
    \E mode \in ClientModes :
        \E r \in {process_add_point(MatchPoint[mode], "black")} :
            /\ game_state = Armed[mode].gs
            /\ Quiescent(client)
            /\ Emitted(r.out, "matchwon")
            /\ Handled(displayWinnerWithData(client), "matchwon", None)
            /\ game_state' = r.gs
            /\ match_storage' = r.ms
            /\ emitted' = r.out
            /\ response' = Reply(r.resp, PointStatus(r.resp))
            /\ last' = [op |-> "addpoint", arg |-> "black", pre |-> MatchPoint[mode].gs,
                        pre_storage |-> MatchPoint[mode].ms]

\* The callback of a timer that is due.
timer_callback(k, kind) ==
    IF kind = "showModeSelection" THEN showModeSelection(k)
    ELSE IF kind = "activateScoreboard" THEN activate_scoreboard(k)
    ELSE IF kind = "modeDetection" THEN mode_detection_timeout(k)
    ELSE resetMatchAndGoToSplash(k)

TimerFires ==
    \E i \in 1..Len(client.timers) :
        /\ client.timers[i].due <= client.now
        /\ Continued(timer_callback([client EXCEPT !.timers = RemoveAt(@, i)],
                                    client.timers[i].kind),
                     client.timers[i].kind, None)
        /\ ServerIdle

\* The server's answer to the request a suspended function waits for.
Answer(task) ==
    IF task.request = "resetmatch" THEN reset_match(Here)
    ELSE IF task.request = "addpoint" THEN process_add_point(Here, task.mode)
    ELSE set_game_mode(Here, task.mode)

\* The socket events of that answer reach the page: matchwon shows the
\* winner screen, pointscored is a sensor input; gamestateupdate changes the
\* figures shown only.
Deliver(k, out) ==
    IF Emitted(out, "matchwon") THEN displayWinnerWithData(k)
    ELSE IF Emitted(out, "pointscored")
         THEN handleSensorInput(k, out[CHOOSE i \in 1..Len(out) : out[i].event = "pointscored"].data.team)
         ELSE k

\* The function resumed with that answer, up to its next await or its end.
resume(k, task, resp) ==
    IF task.fn = "selectMode" THEN hide_mode_selection(k)
    ELSE IF task.fn = "addPointManual"
         THEN IF resp.success THEN showClickFeedback(k, task.mode) ELSE k
         ELSE IF task.request = "resetmatch"
              THEN Await(k, "resetMatchAndGoToSplash", "setgamemode", "null")
              ELSE reset_local_state(k)

\* The server answers a pending fetch and the suspended function goes on.
FetchAnswered ==
    \E i \in 1..Len(client.tasks) :
        \E r \in {Answer(client.tasks[i])} :
            /\ Continued(resume(Deliver([client EXCEPT !.tasks = RemoveAt(@, i)], r.out),
                                client.tasks[i], r.resp),
                         client.tasks[i].request, None)
            /\ game_state' = r.gs
            /\ match_storage' = r.ms
            /\ emitted' = r.out
            /\ response' = Reply(r.resp, IF r.resp.success THEN 200 ELSE 400)
            /\ last' = [op |-> client.tasks[i].request, arg |-> client.tasks[i].mode,
                        pre |-> game_state, pre_storage |-> match_storage]

\* The times by which the clock moves between two events.
TickSteps == {50, 150}

NoTimerBefore(k, time) == \A i \in 1..Len(k.timers) : time <= k.timers[i].due

\* Time passes, up to the next pending timer.
Tick ==
    \E dt \in TickSteps :
        /\ NoTimerBefore(client, client.now + dt)
        /\ Handled([client EXCEPT !.now = @ + dt], "tick", None)
        /\ ServerIdle

\* Nothing happens until the next pending timer is due.
WaitForTimer ==
    \E i \in 1..Len(client.timers) :
        /\ client.timers[i].due > client.now
        /\ NoTimerBefore(client, client.timers[i].due)
        /\ Continued([client EXCEPT !.now = client.timers[i].due], "tick", None)
        /\ ServerIdle

ClientNext ==
    \/ SensorEvent
    \/ MatchWonEvent
    \/ TimerFires
    \/ FetchAnswered
    \/ Tick
    \/ WaitForTimer

Client == ClientInit /\ [][ClientNext]_vars

\* The browser runs every timer that is due and every continuation whose
\* fetch was answered, the server answers every request, and time goes on
\* to the next pending timer.
ClientFair ==
    /\ Client
    /\ WF_vars(TimerFires)
    /\ WF_vars(FetchAnswered)
    /\ WF_vars(WaitForTimer)

\* ------------------------------------------------- the page with touch input
\* A team section is clicked.
TeamClick ==
    \E team \in Teams :
        /\ Handled(team_click(client, team), "teamclick", team)
        /\ ServerIdle

\* The winner screen is clicked outside its buttons.
WinnerScreenClick ==
    /\ client.winnerVisible
    /\ Handled(winner_screen_click(client), "winnerclick", None)
    /\ ServerIdle

\* The Reset or the New Match button is clicked.
NewMatchClick ==
    /\ Handled(newMatch(client), "newmatch", None)
    /\ ServerIdle

TouchNext ==
    \/ SensorEvent
    \/ MatchWonEvent
    \/ TimerFires
    \/ FetchAnswered
    \/ Tick
    \/ WaitForTimer
    \/ TeamClick
    \/ WinnerScreenClick
    \/ NewMatchClick

ClientTouch == ClientInit /\ [][TouchNext]_vars

\* ------------------------------------------------ the server's request threads
AllIdle == \A w \in Workers : workers.thread[w].pc = "idle"

\* A thread moves on: t is what it has become, r the dicts it leaves.
Advanced(w, t, r) ==
    /\ workers' = [workers EXCEPT !.thread[w] = t]
    /\ game_state' = r.gs
    /\ match_storage' = r.ms
    /\ emitted' = r.out
    /\ UNCHANGED <<last, steps, client, seen>>

\* A request reaches the server and a free thread takes it up.
TakeUp ==
    \E w \in Workers, op \in Calls, team \in Teams :
        /\ steps < MaxRequests
        /\ workers.thread[w].pc = "idle"
        /\ steps' = steps + 1
        /\ workers' =
              [thread |-> [workers.thread EXCEPT ![w] = take_up(game_state, op, team)],
               origin |-> IF AllIdle THEN Here ELSE workers.origin,
               calls |-> IF AllIdle THEN <<[op |-> op, team |-> team]>>
                         ELSE Append(workers.calls, [op |-> op, team |-> team]),
               overlapped |-> ~AllIdle /\ take_up(game_state, op, team).pc # "idle"]
        /\ UNCHANGED <<game_state, match_storage, response, emitted, last, client, seen>>

LoadPoint ==
    \E w \in Workers :
        /\ workers.thread[w].pc = "load"
        /\ Advanced(w, load_point(game_state, workers.thread[w]), Here)
        /\ UNCHANGED response

StorePoint ==
    \E w \in Workers :
        /\ workers.thread[w].pc = "store"
        /\ Advanced(w, [workers.thread[w] EXCEPT
                            !.pc = IF @ = "store" /\ workers.thread[w].op = "addpoint"
                                   THEN "read" ELSE "finish"],
                    [Here EXCEPT !.gs = store_point(game_state, workers.thread[w])])
        /\ UNCHANGED response

ReadPoints ==
    \E w \in Workers :
        /\ workers.thread[w].pc = "read"
        /\ Advanced(w, read_points(game_state, workers.thread[w]),
                    [Here EXCEPT !.gs = show_points_of(game_state, workers.thread[w].mode)])
        /\ UNCHANGED response

\* handle_normal_game_win, statement by statement.
CountGame ==
    \E w \in Workers :
        /\ workers.thread[w].pc = "count"
        /\ Advanced(w, [workers.thread[w] EXCEPT !.pc = "reset"],
                    [Here EXCEPT !.gs = count_game(game_state, workers.thread[w].team)])
        /\ UNCHANGED response

ResetPoints ==
    \E w \in Workers :
        /\ workers.thread[w].pc = "reset"
        /\ Advanced(w, [workers.thread[w] EXCEPT !.pc = "set"],
                    [Here EXCEPT !.gs = reset_points(game_state)])
        /\ UNCHANGED response

CheckSet ==
    \E w \in Workers :
        /\ workers.thread[w].pc = "set"
        /\ Advanced(w, [workers.thread[w] EXCEPT !.pc = "log"], check_set_winner(Here))
        /\ UNCHANGED response

WinTiebreak ==
    \E w \in Workers :
        /\ workers.thread[w].pc = "tiebreak"
        /\ Advanced(w, [workers.thread[w] EXCEPT !.pc = "log"],
                    IF workers.thread[w].mode = "tiebreak"
                    THEN handle_tiebreak_win(Here, workers.thread[w].team)
                    ELSE handle_supertiebreak_win(Here, workers.thread[w].team))
        /\ UNCHANGED response

\* The handler logs, broadcasts and returns.
Finish ==
    \E w \in Workers :
        \E r \in {IF workers.thread[w].op = "addpoint"
                   THEN finish_add(Here, workers.thread[w])
                   ELSE finish_subtract(Here, workers.thread[w])} :
            /\ workers.thread[w].pc \in {"log", "finish"}
            /\ Advanced(w, IdleWorker, r)
            /\ response' = Reply(r.resp, PointStatus(r.resp))

RacingNext ==
    \/ TakeUp
    \/ LoadPoint
    \/ StorePoint
    \/ ReadPoints
    \/ CountGame
    \/ ResetPoints
    \/ CheckSet
    \/ WinTiebreak
    \/ Finish

Racing == Init /\ [][RacingNext]_vars

\* ------------------------------------------------------ a match won at love
\* A mode is selected at process start and every /addpoint that follows is
\* posted for the same team.
LoveInit ==
    \E mode \in ValidModes :
        \E r \in {set_game_mode(Constructed, mode)} :
            /\ game_state = r.gs
            /\ match_storage = r.ms
            /\ response = Reply(r.resp, 200)
            /\ emitted = r.out
            /\ last = [op |-> "setgamemode", arg |-> mode,
                       pre |-> InitialGameState, pre_storage |-> InitialMatchStorage]
            /\ steps = 0
            /\ client = InitialClient
            /\ seen = InitialSeen
            /\ workers = IdleWorkers

WinPoint ==
    \E team \in Teams :
        \E r \in {process_add_point(Here, team)} :
            /\ steps < MaxPoints
            /\ last.op = "addpoint" => last.arg = team
            /\ steps' = steps + 1
            /\ game_state' = r.gs
            /\ match_storage' = r.ms
            /\ emitted' = r.out
            /\ response' = Reply(r.resp, PointStatus(r.resp))
            /\ last' = [op |-> "addpoint", arg |-> team,
                        pre |-> game_state, pre_storage |-> match_storage]
            /\ UNCHANGED <<client, seen, workers>>

LoveMatch == LoveInit /\ [][WinPoint]_vars

\* ------------------------------------------- sensors, server and page together
\* The server and the page are both freshly started.
CourtInit ==
    /\ game_state = Constructed.gs
    /\ match_storage = Constructed.ms
    /\ response = Reply(Result(TRUE, None, FALSE, FALSE, FALSE, FALSE), 200)
    /\ emitted = <<>>
    /\ last = [op |-> "init", arg |-> None, pre |-> Constructed.gs,
               pre_storage |-> Constructed.ms]
    /\ steps = 0
    /\ client = InitialClient
    /\ seen = InitialSeen
    /\ workers = IdleWorkers

\* The socket event of an answer that the page has a handler for.
PageEvent(out) ==
    IF Emitted(out, "matchwon") THEN "matchwon"
    ELSE IF Emitted(out, "pointscored") THEN "pointscored"
    ELSE "none"

\* A sensor posts /addpoint for `team`; the events the server emits while it
\* handles the call reach the page. `bound` is the number of inputs explored.
HitWithin(bound) ==
    \E team \in Teams :
        \E r \in {process_add_point(Here, team)} :
            /\ steps < bound
            /\ steps' = steps + 1
            /\ client' = Deliver(client, r.out)
            /\ seen' = [op |-> PageEvent(r.out), team |-> team, pre |-> client,
                        accepted |-> IF PageEvent(r.out) = "pointscored"
                                        /\ ~Debounced(client, team)
                                     THEN [seen.accepted EXCEPT ![team] = client.now]
                                     ELSE seen.accepted,
                        before |-> seen.accepted]
            /\ game_state' = r.gs
            /\ match_storage' = r.ms
            /\ emitted' = r.out
            /\ response' = Reply(r.resp, PointStatus(r.resp))
            /\ last' = [op |-> "addpoint", arg |-> team,
                        pre |-> game_state, pre_storage |-> match_storage]
            /\ UNCHANGED workers

SensorHit == HitWithin(MaxClientSteps)

CourtNext ==
    \/ SensorHit
    \/ TeamClick
    \/ TimerFires
    \/ FetchAnswered
    \/ Tick
    \/ WaitForTimer

Court == CourtInit /\ [][CourtNext]_vars

\* ------------------------------------------------ the mode-selection screen
\* The page 500 ms after a click dismissed its splash screen: the timer of
\* dismissSplash has run showModeSelection.
AtModeSelection ==
    Bind(dismissSplash(InitialClient),
         LAMBDA dismissed :
             showModeSelection([dismissed EXCEPT !.now = @ + ModeSelectionDelay,
                                                 !.timers = <<>>]))

\* The page was loaded on a server that a page shown before had armed, and
\* shows the mode-selection screen.
DetectionInit ==
    \E mode \in ClientModes :
        /\ game_state = Armed[mode].gs
        /\ match_storage = Armed[mode].ms
        /\ response = Reply(Result(TRUE, None, FALSE, FALSE, FALSE, FALSE), 200)
        /\ emitted = <<>>
        /\ last = [op |-> "init", arg |-> None, pre |-> Armed[mode].gs,
                   pre_storage |-> Armed[mode].ms]
        /\ steps = 0
        /\ client = AtModeSelection
        /\ seen = [InitialSeen EXCEPT !.op = "showModeSelection"]
        /\ workers = IdleWorkers

\* The times by which the clock moves on the mode-selection screen: the
\* debounce time, and more than the detection window.
DetectionTickSteps == {150, 350}

\* Sensor hits are explored until the page has selected a mode.
DetectionHit == client.gameMode = None /\ HitWithin(MaxDetectionSteps)

\* Time passes, up to the next pending timer, until the page has selected a
\* mode. The page's cleanup interval (every 2000 ms, dropping buffered events
\* older than 1000 ms) does not run in the time explored.
DetectionTick ==
    \E dt \in DetectionTickSteps :
        /\ client.gameMode = None
        /\ NoTimerBefore(client, client.now + dt)
        /\ steps < MaxDetectionSteps
        /\ steps' = steps + 1
        /\ Callback([client EXCEPT !.now = @ + dt], "tick", None)
        /\ ServerIdle

DetectionNext ==
    \/ DetectionHit
    \/ DetectionTick
    \/ TimerFires
    \/ FetchAnswered
    \/ WaitForTimer

Detection == DetectionInit /\ [][DetectionNext]_vars

\* ===================================================================== claims
\* The last handler run was /addpoint or /subtractpoint.
PointCall == last.op \in {"addpoint", "subtractpoint"}

\* The score fields of a game_state dict.
ScoreFields(gs) ==
    <<gs.point1, gs.point2, gs.score1, gs.score2, gs.game1, gs.game2,
      gs.set1, gs.set2, gs.mode, gs.sethistory, gs.matchhistory>>

\* C1: once matchwon is true, every /addpoint and /subtractpoint call, for
\* either team, returns a failure result and leaves points, display score,
\* games, sets, scoring mode, set history and point history unchanged.
C1_NoScoringAfterMatchWon ==
    (PointCall /\ last.pre.matchwon) =>
        /\ ~response.body.success
        /\ response.status = 400
        /\ ScoreFields(game_state) = ScoreFields(last.pre)
        /\ game_state.matchwon

\* C1 witness: a point was posted for yellow to a match black had already won.
C1_Witness ==
    /\ last.op = "addpoint" /\ last.arg = "yellow"
    /\ last.pre.matchwon /\ last.pre.set1 = 2
    /\ Len(last.pre.matchhistory) > 0

\* C2: while matchwon is false both sets counters are below 2; matchwon is
\* true exactly when one team's sets counter equals 2 (never both), and
\* winner.team is that team.
C2_MatchWonIffTwoSets ==
    /\ ~game_state.matchwon => (game_state.set1 < 2 /\ game_state.set2 < 2)
    /\ game_state.matchwon <=> (game_state.set1 = 2 \/ game_state.set2 = 2)
    /\ ~(game_state.set1 = 2 /\ game_state.set2 = 2)
    /\ game_state.matchwon =>
          /\ game_state.winner # Nothing
          /\ game_state.winner[1].team = (IF game_state.set1 = 2 THEN "black" ELSE "yellow")
    /\ ~game_state.matchwon => game_state.winner = Nothing

\* C2 witness: yellow has won the match two sets to one.
C2_Witness ==
    /\ game_state.matchwon
    /\ game_state.set1 = 1 /\ game_state.set2 = 2
    /\ game_state.winner[1].team = "yellow"

\* The last handler run was a successful /addpoint.
AddOK == last.op = "addpoint" /\ response.body.success

\* The last handler run was a successful /subtractpoint.
SubtractOK == last.op = "subtractpoint" /\ response.body.success

\* Per-team readings of a game_state dict.
PointsOf(gs, team) == IF team = "black" THEN gs.point1 ELSE gs.point2

ScoreOf(gs, team) == IF team = "black" THEN gs.score1 ELSE gs.score2

GamesOf(gs, team) == IF team = "black" THEN gs.game1 ELSE gs.game2

SetsOf(gs, team) == IF team = "black" THEN gs.set1 ELSE gs.set2

Opponent(team) == IF team = "black" THEN "yellow" ELSE "black"

\* The scorer's raw points after the increment of the last /addpoint, and the
\* opponent's.
ScorerPoints == PointsOf(last.pre, last.arg) + 1

OpponentPoints == PointsOf(last.pre, Opponent(last.arg))

\* The last /addpoint met the NORMAL-mode win rule.
NormalGamePoint ==
    /\ AddOK /\ last.pre.mode = "normal"
    /\ ScorerPoints >= 4 /\ ScorerPoints - OpponentPoints >= 2

\* The scorer's games after that game is counted, and the opponent's.
ScorerGames == GamesOf(last.pre, last.arg) + 1

OpponentGames == GamesOf(last.pre, Opponent(last.arg))

\* Those games black first, as the set label orders them.
GamesBlackFirst ==
    IF last.arg = "black" THEN <<ScorerGames, OpponentGames>>
    ELSE <<OpponentGames, ScorerGames>>

PointsCleared(gs) == gs.point1 = 0 /\ gs.point2 = 0 /\ gs.score1 = 0 /\ gs.score2 = 0

GamesUnchanged == game_state.game1 = last.pre.game1 /\ game_state.game2 = last.pre.game2

SetsUnchanged ==
    /\ game_state.set1 = last.pre.set1 /\ game_state.set2 = last.pre.set2
    /\ game_state.sethistory = last.pre.sethistory

\* The scorer's counter went up by one and the opponent's stayed.
GamesCounted ==
    /\ GamesOf(game_state, last.arg) = ScorerGames
    /\ GamesOf(game_state, Opponent(last.arg)) = OpponentGames

SetCounted ==
    /\ SetsOf(game_state, last.arg) = SetsOf(last.pre, last.arg) + 1
    /\ SetsOf(game_state, Opponent(last.arg)) = SetsOf(last.pre, Opponent(last.arg))

\* sethistory gained exactly `label`.
LabelAppended(label) == game_state.sethistory = Append(last.pre.sethistory, label)

\* C3 as claimed: in NORMAL mode /addpoint awards a game exactly when, after
\* the increment, the scorer has at least 4 points and leads by at least 2;
\* then points and display are reset to 0 and the scorer's games counter is
\* one higher than before while the opponent's is as before; otherwise games
\* are unchanged.
C3_GameWinCountsOneGame ==
    (AddOK /\ last.pre.mode = "normal") =>
        IF NormalGamePoint
        THEN PointsCleared(game_state) /\ GamesCounted
        ELSE GamesUnchanged /\ SetsUnchanged

\* C3 amended: as claimed, except that when the awarded game completes the
\* set the games counters read 0-0 after the call, and the incremented count
\* is the one the appended set label records.
C3_GameWinCountsOneGameOrEndsSet ==
    (AddOK /\ last.pre.mode = "normal") =>
        IF NormalGamePoint
        THEN /\ PointsCleared(game_state)
             /\ \/ GamesCounted /\ SetsUnchanged
                \/ /\ game_state.game1 = 0 /\ game_state.game2 = 0
                   /\ SetCounted
                   /\ LabelAppended(Dash(GamesBlackFirst[1], GamesBlackFirst[2]))
        ELSE GamesUnchanged /\ SetsUnchanged

\* C3 witness: yellow won a game from deuce that did not end the set.
C3_Witness ==
    /\ NormalGamePoint /\ last.arg = "yellow"
    /\ ScorerPoints > 4
    /\ game_state.game2 = last.pre.game2 + 1

\* C4: after a game is awarded in NORMAL mode the set is won exactly when the
\* scorer has at least 6 games with a lead of at least 2: then exactly one
\* sets counter goes up by 1, games are reset to 0-0 and the label
\* "gamesA-gamesB" is appended to sethistory; otherwise (6-5, 6-6) no sets
\* counter changes, and games stay 6-6 for as long as a tie-break is played.
C4_SetWonAtSixWithLead ==
    /\ NormalGamePoint =>
          IF ScorerGames >= 6 /\ ScorerGames - OpponentGames >= 2
          THEN /\ SetCounted
               /\ game_state.game1 = 0 /\ game_state.game2 = 0
               /\ LabelAppended(Dash(GamesBlackFirst[1], GamesBlackFirst[2]))
          ELSE SetsUnchanged /\ GamesCounted
    /\ game_state.mode \in {"tiebreak", "supertiebreak"} =>
          game_state.game1 = 6 /\ game_state.game2 = 6

\* C4 witness: black won a set 7-5.
C4_Witness ==
    /\ NormalGamePoint /\ last.arg = "black"
    /\ last.pre.game1 = 6 /\ last.pre.game2 = 5
    /\ game_state.set1 = last.pre.set1 + 1
    /\ game_state.sethistory[Len(game_state.sethistory)] = <<"7", "-", "5">>

\* C5: when a game win in NORMAL mode brings games to 6-6, the scoring mode
\* becomes tiebreak if sets are 0-0, 1-0 or 0-1 and supertiebreak if sets are
\* 1-1; points and display are reset to 0-0 and sets and sethistory are
\* unchanged.
C5_TiebreakEntryAtSixAll ==
    (NormalGamePoint /\ ScorerGames = 6 /\ OpponentGames = 6) =>
        /\ <<last.pre.set1, last.pre.set2>> \in {<<0, 0>>, <<1, 0>>, <<0, 1>>}
              => game_state.mode = "tiebreak"
        /\ <<last.pre.set1, last.pre.set2>> = <<1, 1>> => game_state.mode = "supertiebreak"
        /\ <<last.pre.set1, last.pre.set2>> \in {<<0, 0>>, <<1, 0>>, <<0, 1>>, <<1, 1>>}
        /\ PointsCleared(game_state)
        /\ SetsUnchanged
        /\ game_state.game1 = 6 /\ game_state.game2 = 6

\* C5 witness: at one set all a game win made it 6-6 and the decider began.
C5_Witness ==
    /\ NormalGamePoint /\ ScorerGames = 6 /\ OpponentGames = 6
    /\ last.pre.set1 = 1 /\ last.pre.set2 = 1
    /\ game_state.mode = "supertiebreak"

\* The label of a tie-break set: "7-6(n)" for black, "6-7(n)" for yellow,
\* n the loser's points.
ClaimedTiebreakLabel ==
    IF last.arg = "black"
    THEN <<"7", "-", "6", "(">> \o Digits(OpponentPoints) \o <<")">>
    ELSE <<"6", "-", "7", "(">> \o Digits(OpponentPoints) \o <<")">>

\* C6: in tiebreak mode /addpoint wins the tie-break exactly when the scorer
\* has at least 7 points with a lead of at least 2; it then increments the
\* scorer's sets by 1, appends "7-6(loser)" ("6-7(loser)" when yellow wins)
\* to sethistory, resets points and games to 0-0, sets the mode to normal
\* and evaluates match completion.
C6_TiebreakWonAtSevenWithLead ==
    (AddOK /\ last.pre.mode = "tiebreak") =>
        IF ScorerPoints >= 7 /\ ScorerPoints - OpponentPoints >= 2
        THEN /\ SetCounted
             /\ LabelAppended(ClaimedTiebreakLabel)
             /\ PointsCleared(game_state)
             /\ game_state.game1 = 0 /\ game_state.game2 = 0
             /\ game_state.mode = "normal"
             /\ game_state.matchwon <=> SetsOf(game_state, last.arg) = 2
        ELSE /\ SetsUnchanged /\ GamesUnchanged
             /\ game_state.mode = "tiebreak"
             /\ PointsOf(game_state, last.arg) = ScorerPoints
             /\ PointsOf(game_state, Opponent(last.arg)) = OpponentPoints
             /\ ~game_state.matchwon

\* C6 witness: yellow won a tie-break 8-6 and with it the match.
C6_Witness ==
    /\ AddOK /\ last.pre.mode = "tiebreak" /\ last.arg = "yellow"
    /\ ScorerPoints = 8 /\ OpponentPoints = 6
    /\ game_state.matchwon

\* The label of a super-tie-break set, black's score first: "10-n(STB)" when
\* black wins, "n-10(STB)" when yellow wins, n the loser's points.
ClaimedSuperTiebreakLabel ==
    IF last.arg = "black"
    THEN <<"1", "0", "-">> \o Digits(OpponentPoints) \o <<"(", "S", "T", "B", ")">>
    ELSE Digits(OpponentPoints) \o <<"-", "1", "0", "(", "S", "T", "B", ")">>

\* C7: in supertiebreak mode /addpoint wins exactly when the scorer has at
\* least 10 points with a lead of at least 2; the win ends the match (the
\* scorer's sets become 2, matchwon true), appends the "(STB)" label to
\* sethistory, resets both points and games to 0-0 and sets the mode to
\* normal.
C7_SuperTiebreakEndsMatch ==
    (AddOK /\ last.pre.mode = "supertiebreak") =>
        IF ScorerPoints >= 10 /\ ScorerPoints - OpponentPoints >= 2
        THEN /\ SetsOf(game_state, last.arg) = 2
             /\ game_state.matchwon
             /\ LabelAppended(ClaimedSuperTiebreakLabel)
             /\ PointsCleared(game_state)
             /\ game_state.game1 = 0 /\ game_state.game2 = 0
             /\ game_state.mode = "normal"
        ELSE /\ SetsUnchanged /\ GamesUnchanged
             /\ game_state.mode = "supertiebreak"
             /\ ~game_state.matchwon

\* The display the claims give a raw point count in a scoring mode.
ClaimedDisplay(p, mode) ==
    IF mode # "normal" THEN p
    ELSE IF p >= 3 THEN 40
    ELSE IF p = 2 THEN 30
    ELSE IF p = 1 THEN 15
    ELSE 0

\* C8: a successful /subtractpoint sets the team's points to
\* max(0, points - 1), leaves the other team's points, games, sets, scoring
\* mode, sethistory and matchwon unchanged, recomputes the display from the
\* points for the current mode, and appends exactly one 'point_subtract'
\* entry to matchhistory.
C8_SubtractCorrectsPointsOnly ==
    SubtractOK =>
        /\ PointsOf(game_state, last.arg)
              = (IF PointsOf(last.pre, last.arg) = 0 THEN 0
                 ELSE PointsOf(last.pre, last.arg) - 1)
        /\ PointsOf(game_state, Opponent(last.arg)) = PointsOf(last.pre, Opponent(last.arg))
        /\ GamesUnchanged /\ SetsUnchanged
        /\ game_state.mode = last.pre.mode
        /\ game_state.matchwon = last.pre.matchwon
        /\ game_state.score1 = ClaimedDisplay(game_state.point1, game_state.mode)
        /\ game_state.score2 = ClaimedDisplay(game_state.point2, game_state.mode)
        /\ Len(game_state.matchhistory) = Len(last.pre.matchhistory) + 1
        /\ SubSeq(game_state.matchhistory, 1, Len(last.pre.matchhistory))
              = last.pre.matchhistory
        /\ game_state.matchhistory[Len(game_state.matchhistory)].action = "point_subtract"
        /\ game_state.matchhistory[Len(game_state.matchhistory)].team = last.arg

\* C8 witness: a point was subtracted from a team that had none, the other
\* team holding points, in an armed match.
C8_Witness ==
    /\ SubtractOK
    /\ PointsOf(last.pre, last.arg) = 0
    /\ PointsOf(last.pre, Opponent(last.arg)) > 0

\* C9: from any reachable state /resetmatch yields the initial state: points,
\* display, games and sets 0, mode normal, matchwon false, no winner, empty
\* set and point histories, side-switch bookkeeping cleared, game mode
\* unarmed and the stored match summary wiped; a second reset gives the same
\* state as the first.
C9_ResetRestoresInitialState ==
    last.op = "resetmatch" =>
        /\ game_state = InitialGameState
        /\ match_storage = InitialMatchStorage
        /\ game_state.gamemode = None /\ ~game_state.scoreboard_active
        /\ reset_match(Here).gs = game_state
        /\ reset_match(Here).ms = match_storage

\* C9 witness: a won match, whose summary was stored, was reset.
C9_Witness ==
    /\ last.op = "resetmatch"
    /\ last.pre.matchwon
    /\ last.pre_storage.matchcompleted
    /\ last.pre.gamemode = "basic"

\* C10: while no game mode is selected, /addpoint and /subtractpoint return
\* the 'not active' rejection with the reroute hint (blocked,
\* trigger_transition), leave game_state and match_storage unchanged and
\* emit no event.
C10_UnarmedPointsRejected ==
    (PointCall /\ last.pre.gamemode = None) =>
        /\ ~response.body.success
        /\ response.body.blocked /\ response.body.trigger_transition
        /\ response.body.error = "Scoreboard not active yet"
        /\ game_state = last.pre
        /\ match_storage = last.pre_storage
        /\ emitted = <<>>

\* C10 witness: after a reset of a played match a point was subtracted
\* before any mode was selected.
C10_Witness ==
    /\ last.op = "subtractpoint"
    /\ last.pre.gamemode = None
    /\ ~response.body.success
    /\ steps >= 2

\* The side-switch flags of a game_state dict.
SwitchFlags(gs) == <<gs.shouldswitchsides, gs.totalgamesinset, gs.initial_switch_done>>

\* C11: /setgamemode with any value other than basic, competition or lock
\* (the null the client posts after a reset included) is answered with an
\* error and changes nothing: game mode, scoreboard_active, the side-switch
\* flags and every score field keep their values, and nothing is emitted.
C11_InvalidModeRejected ==
    (last.op = "setgamemode" /\ last.arg \notin {"basic", "competition", "lock"}) =>
        /\ ~response.body.success
        /\ response.body.error = "Invalid mode"
        /\ response.status = 400
        /\ game_state.gamemode = last.pre.gamemode
        /\ game_state.scoreboard_active = last.pre.scoreboard_active
        /\ SwitchFlags(game_state) = SwitchFlags(last.pre)
        /\ ScoreFields(game_state) = ScoreFields(last.pre)
        /\ game_state = last.pre
        /\ match_storage = last.pre_storage
        /\ emitted = <<>>

\* C11 witness: null was posted in BASIC mode, mid-set, with a side switch
\* pending.
C11_Witness ==
    /\ last.op = "setgamemode" /\ last.arg = "null"
    /\ last.pre.gamemode = "basic" /\ last.pre.scoreboard_active
    /\ last.pre.shouldswitchsides
    /\ last.pre.game1 + last.pre.game2 > 0

\* The points that can win in a scoring mode.
Threshold(mode) ==
    IF mode = "normal" THEN 4 ELSE IF mode = "tiebreak" THEN 7 ELSE 10

\* `team` holds a win of the current mode that was not awarded.
WinPending(gs, team) ==
    /\ PointsOf(gs, team) >= Threshold(gs.mode)
    /\ PointsOf(gs, team) - PointsOf(gs, Opponent(team)) >= 2

\* The last /addpoint awarded a game, a set or the match.
TransitionFired ==
    /\ AddOK
    /\ \E i \in 1..Len(emitted) :
          \/ emitted[i].event = "matchwon"
          \/ emitted[i].event = "pointscored" /\ emitted[i].data.action \in {"game", "set"}

\* The smallest lead that wins against an opponent on q points.
SmallestWinningLead(mode, q) ==
    IF Threshold(mode) - q > 2 THEN Threshold(mode) - q ELSE 2

\* C12: in matches played by /addpoint alone the win-by-2 rule is exact and
\* never skipped: no state between calls has a team at or above the
\* threshold of the current mode (4, 7, 10) with a lead of 2 or more, and
\* when a game, tie-break or super tie-break is awarded the scorer's lead is
\* the smallest one that wins against the opponent's points.
C12_WinByTwoExact ==
    /\ \A team \in Teams : ~WinPending(game_state, team)
    /\ TransitionFired =>
          /\ ScorerPoints >= Threshold(last.pre.mode)
          /\ ScorerPoints - OpponentPoints
                = SmallestWinningLead(last.pre.mode, OpponentPoints)
    /\ (AddOK /\ ~TransitionFired) =>
          ~(ScorerPoints >= Threshold(last.pre.mode) /\ ScorerPoints - OpponentPoints >= 2)

\* C12 witness: black won the super tie-break 11-9, from 9-9.
C12_Witness ==
    /\ TransitionFired /\ last.arg = "black"
    /\ last.pre.mode = "supertiebreak"
    /\ ScorerPoints = 11 /\ OpponentPoints = 9

\* The display of both teams is the one claimed for their raw points.
DisplayFollowsPoints(gs) ==
    /\ gs.score1 = ClaimedDisplay(gs.point1, gs.mode)
    /\ gs.score2 = ClaimedDisplay(gs.point2, gs.mode)

\* C13: after every successful /addpoint and /subtractpoint the display
\* score is a function of the raw points and the scoring mode: in normal mode
\* 0, 1, 2 show as 0, 15, 30 and any count of 3 or more as 40; in tiebreak
\* and supertiebreak mode the display is the raw count.
C13_DisplayFollowsPoints ==
    (AddOK \/ SubtractOK) => DisplayFollowsPoints(game_state)

\* C13 witness: at deuce a point took black to 4 raw points, still shown as
\* 40, and the game went on.
C13_Witness ==
    /\ AddOK /\ last.arg = "black"
    /\ game_state.mode = "normal"
    /\ game_state.point1 = 4 /\ game_state.point2 = 3
    /\ game_state.score1 = 40 /\ game_state.score2 = 40

\* `old` is an unchanged prefix of `new`.
IsPrefix(old, new) ==
    /\ Len(old) <= Len(new)
    /\ SubSeq(new, 1, Len(old)) = old

\* C14: matchhistory and sethistory are append-only: after /addpoint,
\* /subtractpoint, /setgamemode, a side-switch acknowledgment (and every
\* other handler but /resetmatch) the previous contents of each list are an
\* unchanged prefix of the new contents; /resetmatch empties both.
C14_HistoriesAppendOnly ==
    /\ last.op \notin {"init", "resetmatch"} =>
          /\ IsPrefix(last.pre.matchhistory, game_state.matchhistory)
          /\ IsPrefix(last.pre.sethistory, game_state.sethistory)
    /\ last.op = "resetmatch" =>
          /\ game_state.matchhistory = <<>>
          /\ game_state.sethistory = <<>>

\* C14 witness: a point that ended the second set appended to both lists,
\* which held entries before it.
C14_Witness ==
    /\ AddOK
    /\ Len(last.pre.sethistory) = 1 /\ Len(game_state.sethistory) = 2
    /\ Len(last.pre.matchhistory) > 0
    /\ Len(game_state.matchhistory) > Len(last.pre.matchhistory)

\* The entries the last handler appended to matchhistory.
Appended ==
    SubSeq(game_state.matchhistory, Len(last.pre.matchhistory) + 1,
           Len(game_state.matchhistory))

\* The entry's snapshots are the display, games and sets before and after
\* the last call.
SnapshotsOfCall(entry) ==
    /\ entry.scores.before = <<last.pre.score1, last.pre.score2>>
    /\ entry.scores.after = <<game_state.score1, game_state.score2>>
    /\ entry.games.before = <<last.pre.game1, last.pre.game2>>
    /\ entry.games.after = <<game_state.game1, game_state.game2>>
    /\ entry.sets.before = <<last.pre.set1, last.pre.set2>>
    /\ entry.sets.after = <<game_state.set1, game_state.set2>>

\* No "set" entry comes before a "game" entry among the appended ones.
GameBeforeSet ==
    \A i, j \in 1..Len(Appended) :
        (Appended[i].action = "game" /\ Appended[j].action = "set") => i < j

\* C15: every successful /addpoint or /subtractpoint appends exactly one
\* entry to matchhistory, whatever the branch taken (plain point, game win,
\* set win, tie-break win, match win); the entry's before/after snapshots
\* are the display score, games and sets held right before and right after
\* the call; on a game win the "game" entry precedes any "set" entry of the
\* same point.
C15_OneEntryPerCall ==
    (AddOK \/ SubtractOK) =>
        /\ Len(Appended) = 1
        /\ SnapshotsOfCall(Appended[1])
        /\ GameBeforeSet

\* The sideswitchrequired events the last handler emitted.
SideSwitchEvents ==
    Cardinality({i \in 1..Len(emitted) : emitted[i].event = "sideswitchrequired"})

\* The last /addpoint won a normal game in COMPETITION or LOCK mode and the
\* set did not end.
GameWonInSet ==
    /\ NormalGamePoint
    /\ last.pre.gamemode \in {"competition", "lock"}
    /\ SetsUnchanged

\* The flag and the event follow the parity of the games played in the set.
SwitchFollowsParity ==
    IF (game_state.game1 + game_state.game2) % 2 = 1
    THEN game_state.shouldswitchsides /\ SideSwitchEvents = 1
    ELSE ~game_state.shouldswitchsides /\ SideSwitchEvents = 0

\* A point played in a tie-break or super tie-break runs no side-switch check.
TiebreakPointsUnchecked ==
    (AddOK /\ last.pre.mode # "normal" /\ last.pre.gamemode \in {"competition", "lock"}) =>
        /\ SideSwitchEvents = 0
        /\ game_state.shouldswitchsides => last.pre.shouldswitchsides

\* C16 as claimed: in COMPETITION or LOCK mode, after every /addpoint that
\* wins a normal game without ending the set, shouldswitchsides is true and
\* one sideswitchrequired event is emitted exactly when game1 + game2 is
\* odd, and the flag is false with no event when the total is even; points
\* of a tie-break or super tie-break never run the check.
C16_SwitchAfterOddGames ==
    /\ GameWonInSet => SwitchFollowsParity
    /\ TiebreakPointsUnchecked

\* C16 amended: as claimed for the games that leave the scoring mode normal;
\* the game that makes it 6-6 starts the tie-break without running the
\* check: no event is emitted and shouldswitchsides keeps the value it had.
C16_SwitchAfterOddGamesUnlessTiebreak ==
    /\ GameWonInSet =>
          IF game_state.mode = "normal"
          THEN SwitchFollowsParity
          ELSE /\ game_state.game1 = 6 /\ game_state.game2 = 6
               /\ SideSwitchEvents = 0
               /\ game_state.shouldswitchsides = last.pre.shouldswitchsides
    /\ TiebreakPointsUnchecked

\* C16 witness: in COMPETITION mode yellow won the eleventh game of the set
\* and the switch was signalled.
C16_Witness ==
    /\ GameWonInSet /\ last.arg = "yellow"
    /\ game_state.gamemode = "competition"
    /\ game_state.game1 + game_state.game2 = 11
    /\ game_state.shouldswitchsides /\ SideSwitchEvents = 1

\* The last handler ran with BASIC mode selected when it returned.
InBasic == last.op # "init" /\ game_state.gamemode = "basic"

\* The last handler signalled a side switch: it emitted the event or raised
\* the flag.
SwitchSignalled ==
    \/ SideSwitchEvents > 0
    \/ game_state.shouldswitchsides /\ ~last.pre.shouldswitchsides

\* The last handler ended a set.
SetEnded == game_state.set1 + game_state.set2 > last.pre.set1 + last.pre.set2

\* C17: in BASIC mode one side switch is signalled at the start of every
\* set: the flag is raised and sideswitchrequired emitted only while games
\* are 0-0, once, by a call that found initial_switch_done false or ended
\* the set; initial_switch_done then stays true until the set ends or the
\* match is reset, so a repeated /setgamemode or a reconnecting client does
\* not signal again; every set won in BASIC mode that leaves games 0-0
\* signals the switch of the next one; and no /addpoint that leaves
\* game1 + game2 > 0 raises the flag or emits the event.
C17_BasicSwitchOncePerSet ==
    /\ (InBasic /\ SwitchSignalled) =>
          /\ game_state.game1 = 0 /\ game_state.game2 = 0
          /\ SideSwitchEvents = 1
          /\ game_state.shouldswitchsides
          /\ game_state.initial_switch_done
          /\ ~last.pre.initial_switch_done \/ SetEnded
    /\ (InBasic /\ last.pre.gamemode = "basic" /\ last.pre.initial_switch_done
           /\ last.op \in {"setgamemode", "connect"}) =>
          /\ SideSwitchEvents = 0
          /\ game_state.shouldswitchsides = last.pre.shouldswitchsides
    /\ (last.pre.initial_switch_done /\ ~game_state.initial_switch_done) =>
          SetEnded \/ last.op = "resetmatch"
    /\ (InBasic /\ AddOK /\ SetEnded /\ game_state.game1 + game_state.game2 = 0
           /\ game_state.set1 + game_state.set2 <= 2) =>
          SideSwitchEvents = 1 /\ game_state.shouldswitchsides
    /\ (InBasic /\ last.op = "setgamemode"
           /\ last.pre.game1 + last.pre.game2 = 0 /\ ~last.pre.initial_switch_done
           /\ last.pre.set1 + last.pre.set2 <= 2) =>
          SideSwitchEvents = 1 /\ game_state.shouldswitchsides
    /\ (InBasic /\ AddOK /\ game_state.game1 + game_state.game2 > 0) =>
          /\ SideSwitchEvents = 0
          /\ game_state.shouldswitchsides => last.pre.shouldswitchsides

\* C17 witness: in BASIC mode black won the second set to make it one set
\* all, and the switch of the third set was signalled.
C17_Witness ==
    /\ InBasic /\ AddOK /\ last.arg = "black"
    /\ last.pre.initial_switch_done
    /\ game_state.set1 = 1 /\ game_state.set2 = 1
    /\ SideSwitchEvents = 1 /\ game_state.shouldswitchsides
    /\ game_state.initial_switch_done

\* A fresh set of a fresh match: games 0-0, sets 0-0.
FreshSet(gs) == gs.game1 = 0 /\ gs.game2 = 0 /\ gs.set1 = 0 /\ gs.set2 = 0

\* The last /addpoint was admitted in BASIC mode on a fresh set.
PointOnFreshBasicSet ==
    AddOK /\ last.pre.gamemode = "basic" /\ FreshSet(last.pre)

\* C18 as claimed: in BASIC mode with a fresh set (games 0-0, sets 0-0) the
\* first admitted point emits a sideswitchrequired event at once, before any
\* further game is played.
C18_FirstPointSignalsSwitch ==
    (PointOnFreshBasicSet /\ last.pre.matchhistory = <<>>) => SideSwitchEvents = 1

\* C18 amended: in BASIC mode the switch of a fresh set is signalled when the
\* mode is selected, before any point is admitted: /setgamemode basic on a
\* fresh set that has not signalled yet emits one sideswitchrequired event
\* and raises the flag, every fresh set in BASIC mode has initial_switch_done
\* set, and a point admitted on it emits no sideswitchrequired event and
\* leaves the flag as it was.
C18_ModeSelectionSignalsSwitch ==
    /\ (last.op = "setgamemode" /\ last.arg = "basic" /\ FreshSet(last.pre)
           /\ ~last.pre.initial_switch_done) =>
          /\ SideSwitchEvents = 1
          /\ emitted[1].event = "sideswitchrequired"
          /\ game_state.shouldswitchsides /\ game_state.initial_switch_done
    /\ (game_state.gamemode = "basic" /\ FreshSet(game_state)) =>
          game_state.initial_switch_done
    /\ PointOnFreshBasicSet =>
          /\ SideSwitchEvents = 0
          /\ game_state.shouldswitchsides = last.pre.shouldswitchsides

\* C18 witness: the first point of a match in BASIC mode was admitted with
\* the switch already signalled and still pending.
C18_Witness ==
    /\ PointOnFreshBasicSet /\ last.pre.matchhistory = <<>>
    /\ last.pre.initial_switch_done /\ last.pre.shouldswitchsides
    /\ Len(game_state.matchhistory) = 1

\* C19: the side-switch acknowledgment sets shouldswitchsides to false and
\* changes nothing else: points, display score, games, sets, scoring mode,
\* game mode, both histories, matchwon, initial_switch_done and the stored
\* match are as before, whether or not a switch was pending.
C19_AcknowledgeClearsFlagOnly ==
    last.op = "acknowledge_side_switch" =>
        /\ ~game_state.shouldswitchsides
        /\ ScoreFields(game_state) = ScoreFields(last.pre)
        /\ game_state.gamemode = last.pre.gamemode
        /\ game_state.matchwon = last.pre.matchwon
        /\ game_state.initial_switch_done = last.pre.initial_switch_done
        /\ game_state = [last.pre EXCEPT !.shouldswitchsides = FALSE]
        /\ match_storage = last.pre_storage
        /\ SideSwitchEvents = 0

\* C19 witness: a pending switch was acknowledged mid-game.
C19_Witness ==
    /\ last.op = "acknowledge_side_switch"
    /\ last.pre.shouldswitchsides /\ last.pre.initial_switch_done
    /\ last.pre.point1 + last.pre.point2 > 0
    /\ ~game_state.shouldswitchsides

\* The last callback of the page was a sensor event.
SensorCall == seen.op = "pointscored"

\* That event arrived less than SENSOR_DEBOUNCE_MS after the last admitted
\* event of its team.
WithinDebounceWindow ==
    /\ seen.before[seen.team] # -1
    /\ seen.pre.now - seen.before[seen.team] < SENSOR_DEBOUNCE_MS

Admitted == SensorCall /\ ~Debounced(seen.pre, seen.team)

Stamped == [seen.pre EXCEPT !.lastSensorTime[seen.team] = seen.pre.now]

\* The first phase whose predicate holds, in the order WINNER, SPLASH,
\* MODE_SELECT, ACTIVE.
PhaseOf(k) ==
    IF k.winnerVisible THEN "WINNER"
    ELSE IF k.splashActive THEN "SPLASH"
    ELSE IF k.modeSelectionVisible THEN "MODE_SELECT"
    ELSE IF k.isScoreboardActive /\ k.gameMode # None THEN "ACTIVE"
    ELSE "NONE"

\* The action of one phase, run alone on client k.
PhaseAction(phase, k, team) ==
    IF phase = "WINNER" THEN resetMatchAndGoToSplash(clearWinnerTimeout(k))
    ELSE IF phase = "SPLASH" THEN dismissSplash(k)
    ELSE IF phase = "MODE_SELECT" THEN detectModeFromSensor(k, team, k.now)
    ELSE IF phase = "ACTIVE" THEN showClickFeedback(k, team)
    ELSE k

\* What the actions of the phases leave behind: a reset sends a request, the
\* splash dismissal schedules the mode selection, the mode detection buffers
\* the event or selects a mode.
ResetSent == Len(client.tasks) = Len(seen.pre.tasks) + 1
             /\ client.tasks[Len(client.tasks)].request = "resetmatch"

SplashDismissal == client.splashDismissed /\ ~seen.pre.splashDismissed

ModeDetection == client.pendingSensorEvents # seen.pre.pendingSensorEvents
                 \/ client.gameMode # seen.pre.gameMode

\* The number of phase predicates that hold of client k.
PhasesOpen(k) ==
    Cardinality({p \in {"WINNER", "SPLASH", "MODE_SELECT", "ACTIVE"} :
        \/ p = "WINNER" /\ k.winnerVisible
        \/ p = "SPLASH" /\ k.splashActive
        \/ p = "MODE_SELECT" /\ k.modeSelectionVisible
        \/ p = "ACTIVE" /\ k.isScoreboardActive /\ k.gameMode # None})

\* C21: an admitted sensor event runs the action of exactly one phase, the
\* first whose predicate holds in the order WINNER, SPLASH, MODE_SELECT,
\* ACTIVE, also when several predicates hold, and runs the action of no
\* phase of lower priority.
C21_FirstPhaseOnly ==
    Admitted =>
        /\ client = PhaseAction(PhaseOf(seen.pre), Stamped, seen.team)
        /\ PhaseOf(seen.pre) = "WINNER" => ResetSent /\ ~SplashDismissal /\ ~ModeDetection
        /\ PhaseOf(seen.pre) = "SPLASH" => SplashDismissal /\ ~ResetSent /\ ~ModeDetection
        /\ PhaseOf(seen.pre) = "MODE_SELECT" => ModeDetection /\ ~ResetSent /\ ~SplashDismissal
        /\ PhaseOf(seen.pre) \in {"ACTIVE", "NONE"} =>
               ~ResetSent /\ ~SplashDismissal /\ ~ModeDetection

\* An event was admitted while the winner screen and the splash screen were
\* both shown: the reset was started and the splash screen not dismissed.
C21_Witness ==
    /\ Admitted
    /\ PhasesOpen(seen.pre) > 1
    /\ seen.pre.winnerVisible /\ seen.pre.splashActive
    /\ ResetSent
    /\ ~client.splashDismissed

\* An event was admitted while the winner screen was shown.
WinnerEvent == Admitted /\ seen.pre.winnerVisible

WinnerTimerPending(k) == \E i \in 1..Len(k.timers) : k.timers[i].kind = "winnerDismiss"

\* The winner timer the page has registered is pending and due.
RegisteredTimerDue(k) ==
    \E i \in 1..Len(k.timers) :
        /\ k.timers[i].kind = "winnerDismiss"
        /\ k.timers[i].id = k.winnerDismissTimeout
        /\ k.timers[i].due <= k.now

\* The session after a reset: the server's dicts as at process start with no
\* mode selected, the page with no mode, scoring off, on the splash screen.
SessionReset ==
    /\ game_state = ResetGameState
    /\ game_state.gamemode = None /\ ~game_state.scoreboard_active
    /\ match_storage = WipedMatchStorage
    /\ client.gameMode = None
    /\ ~client.isScoreboardActive
    /\ PhaseOf(client) = "SPLASH"

\* C22: an event admitted on the winner screen resets the session: the
\* pending winner timer is cancelled at once and the reset is requested, a
\* winner timer that fires later is one registered after that, and the
\* session reaches the reset state: server dicts as at process start with
\* no mode, page with no mode and scoring off, splash screen shown.
C22_WinnerEventResets ==
    /\ [](WinnerEvent =>
            ResetSent /\ ~WinnerTimerPending(client) /\ client.winnerDismissTimeout = 0)
    /\ [][seen'.op = "winnerDismiss" /\ seen' # seen => RegisteredTimerDue(client)]_vars
    /\ (WinnerEvent ~> SessionReset)

\* The reset started by an event on the winner screen has run to its end:
\* the winner timer that was pending is gone and the session is reset.
C22_Witness ==
    /\ seen.op = "setgamemode"
    /\ last.arg = "null"
    /\ last.pre = ResetGameState
    /\ seen.pre.winnerVisible
    /\ seen.pre.winnerDismissTimeout = 0
    /\ SessionReset
    /\ ~WinnerTimerPending(client)

\* An event was admitted while the splash screen was the phase.
SplashEvent == Admitted /\ PhaseOf(seen.pre) = "SPLASH"

\* An event was admitted after the splash screen was dismissed and before the
\* mode-selection screen was shown.
TransitionEvent ==
    /\ Admitted
    /\ seen.pre.splashDismissed
    /\ ~seen.pre.modeSelectionVisible
    /\ \E i \in 1..Len(seen.pre.timers) : seen.pre.timers[i].kind = "showModeSelection"

\* The number of pending timers of one kind.
CountKind(k, kind) == Cardinality({i \in 1..Len(k.timers) : k.timers[i].kind = kind})

\* A step in which the page handles a sensor event on the splash screen.
SplashEventStep ==
    /\ steps' = steps + 1
    /\ seen'.op = "pointscored"
    /\ PhaseOf(client) = "SPLASH"
    /\ ~Debounced(client, seen'.team)

ModeSelectEvent == Admitted /\ PhaseOf(seen.pre) = "MODE_SELECT"

\* The buffer holds an event of `team` not older than the detection window.
RecentEvent(k, team) ==
    \E i \in 1..Len(k.pendingSensorEvents) :
        /\ k.pendingSensorEvents[i].team = team
        /\ k.now - k.pendingSensorEvents[i].time < DUAL_SENSOR_WINDOW

\* selectMode(mode) was called in the last callback.
ModeSelected(mode) ==
    /\ client.gameMode = mode
    /\ Len(client.tasks) = Len(seen.pre.tasks) + 1
    /\ client.tasks[Len(client.tasks)].request = "setgamemode"
    /\ client.tasks[Len(client.tasks)].mode = mode

\* Events of both teams arrived within the detection window.
BothSources == ModeSelectEvent /\ RecentEvent(seen.pre, Other(seen.team))

C24_BothSourcesSelectCompetition == BothSources => ModeSelected("competition")

\* The detection window elapsed with events of one team only buffered.
WindowElapsedOnOneSource ==
    /\ seen.op = "modeDetection"
    /\ seen.pre.modeSelectionVisible
    /\ Len(seen.pre.pendingSensorEvents) > 0
    /\ \E team \in Teams : ~HasTeam(seen.pre.pendingSensorEvents, team)

C24_OneSourceSelectsBasic == WindowElapsedOnOneSource => ModeSelected("basic")

\* C24: on the mode-selection screen, admitted events of both teams within
\* DUAL_SENSOR_WINDOW select competition, and when the window elapses with
\* events of one team only, however many, basic is selected.
C24_ModeByWindow == C24_BothSourcesSelectCompetition /\ C24_OneSourceSelectsBasic

\* The last callback handled the server's matchwon event.
MatchJustWon == seen.op = "matchwon"

\* One winner timer is pending: the registered one, due WinnerDismissDelay
\* after now.
WinnerTimerArmed(k) ==
    /\ CountKind(k, "winnerDismiss") = 1
    /\ \E i \in 1..Len(k.timers) :
           /\ k.timers[i].kind = "winnerDismiss"
           /\ k.timers[i].id = k.winnerDismissTimeout
           /\ k.timers[i].due = k.now + WinnerDismissDelay

\* C25: when the match is won on the server the page shows the winner screen
\* with scoring off and one 30 s timer armed; when that timer fires it starts
\* the reset the winner-screen event handler starts; pre-empted or not, the
\* session reaches the reset state: splash screen, server dicts as at
\* process start with no mode.
C25_WinnerAutoDismiss ==
    /\ [](MatchJustWon =>
            /\ game_state.matchwon
            /\ PhaseOf(client) = "WINNER"
            /\ ~client.isScoreboardActive
            /\ WinnerTimerArmed(client))
    /\ [](seen.op = "winnerDismiss" =>
            /\ ResetSent
            /\ client = resetMatchAndGoToSplash([seen.pre EXCEPT !.timers = client.timers]))
    /\ (MatchJustWon ~> SessionReset)

\* Nothing pre-empted the winner timer: it fired 30 s after the match was
\* won and the reset it started has run to its end.
C25_Witness ==
    /\ seen.op = "setgamemode"
    /\ last.arg = "null"
    /\ SessionReset
    /\ client.winnerDismissTimeout # 0
    /\ client.now = PageLoadTime + WinnerDismissDelay
    /\ ~WinnerTimerPending(client)

\* resetMatchAndGoToSplash() was called in the last callback.
ResetStarted == ResetSent

\* C26: every reset, by whatever path, cancels the outstanding winner timer;
\* at most one winner timer is pending at any time; and a winner timer never
\* fires after the session has left the winner screen it was armed for.
C26_OneWinnerTimer ==
    /\ ResetStarted => ~WinnerTimerPending(client)
    /\ CountKind(client, "winnerDismiss") <= 1
    /\ seen.op = "winnerDismiss" => seen.pre.winnerVisible

RECURSIVE SerialResults(_, _)
\* The dicts the calls numbered in `todo` leave when they run one after the
\* other, in every order.
SerialResults(c, todo) ==
    IF todo = {} THEN {[gs |-> c.gs, ms |-> c.ms]}
    ELSE UNION {SerialResults(Serial(c, workers.calls[i]), todo \ {i}) : i \in todo}

\* Every call taken up has returned.
AllReturned == AllIdle /\ Len(workers.calls) > 0

Serialized ==
    AllReturned =>
        [gs |-> game_state, ms |-> match_storage]
            \in SerialResults(workers.origin, 1..Len(workers.calls))

\* A thread has counted the game and not yet cleared the points: a reader
\* finds the games incremented and the points that won the game.
TornGame ==
    \E w \in Workers :
        /\ workers.thread[w].pc = "reset"
        /\ GameWon(Own(game_state, workers.thread[w].team),
                   Opp(game_state, workers.thread[w].team))

\* C27: two overlapping /addpoint or /subtractpoint requests leave the dicts
\* that running them one after the other, in some order, leaves, and no
\* reader finds a games counter incremented with the points that won the
\* game still in place.
C27_RequestsSerialized == Serialized /\ ~TornGame

\* The last handler changed game_state.
Mutated == last.op # "init" /\ game_state # last.pre

\* Some gamestateupdate emitted by the last handler carries the dict as the
\* handler left it.
StateBroadcast ==
    \E i \in 1..Len(emitted) :
        emitted[i].event = "gamestateupdate" /\ emitted[i].data = game_state

\* The same for the handlers in `ops` only.
BroadcastAfter(ops) == Mutated /\ last.op \in ops => StateBroadcast

\* C28: every handler that changes game_state (a point added or subtracted,
\* a mode selected, a reset, a side switch acknowledged, the BASIC
\* start-of-set trigger run on connect) emits at least one gamestateupdate
\* that carries the dict as the change left it.
C28_MutationsBroadcast == Mutated => StateBroadcast

\* The last call was an /addpoint that counted a set, and for whom.
SetAwarded ==
    /\ last.op = "addpoint"
    /\ game_state.set1 + game_state.set2 = last.pre.set1 + last.pre.set2 + 1

AwardedTo == IF game_state.set1 > last.pre.set1 THEN "black" ELSE "yellow"

\* The winner calculate_match_statistics derives from one label.
DerivedWinner(label) == SetBreakdown(1, label).setwinner

\* The number of sets the stored breakdown gives to `team`.
DerivedSets(team) ==
    Cardinality({i \in 1..Len(match_storage.matchdata.setsbreakdown) :
                    match_storage.matchdata.setsbreakdown[i].setwinner = team})

\* C29: the winner the statistics derive from the label of a set is the team
\* whose sets counter was incremented for that set, for plain sets, tie-break
\* sets and super-tie-break sets at every loser score, so that the winners
\* stored for a finished match add up to the final sets score.
C29_LabelGivesSetWinner ==
    /\ SetAwarded =>
           /\ Len(game_state.sethistory) = Len(last.pre.sethistory) + 1
           /\ DerivedWinner(game_state.sethistory[Len(game_state.sethistory)]) = AwardedTo
    /\ game_state.matchwon /\ match_storage.matchcompleted =>
           /\ DerivedSets("black") = game_state.set1
           /\ DerivedSets("yellow") = game_state.set2

\* The points posted so far in the match one team wins at love.
PointsWon == steps

\* The value of the winning team's side of a pair of fields.
WinnerSide(b, y) == IF last.arg = "black" THEN b ELSE y

\* The value of the other team's side.
LoserSide(b, y) == IF last.arg = "black" THEN y ELSE b

\* The label of a set won at love, the winner's games first.
LoveSetWinnerFirst == <<"6", "-", "0">>

\* The label of a set won at love, black's games first.
LoveSetBlackFirst == IF last.arg = "black" THEN <<"6", "-", "0">> ELSE <<"0", "-", "6">>

\* The set labels after n points, each set labelled `label`.
LoveHistory(n, label) ==
    IF n < 24 THEN <<>> ELSE IF n < 48 THEN <<label>> ELSE <<label, label>>

\* The score after n points of a match one team wins at love, n at most 48:
\* the display runs 0, 15, 30, 40, every 4th point counts a game and clears
\* the display, every 24th counts a set and clears the games, the 48th wins
\* the match, the scoring mode is normal, the other team has nothing.
LoveScore(n) ==
    /\ game_state.mode = "normal"
    /\ WinnerSide(game_state.score1, game_state.score2) = ClaimedDisplay(n % 4, "normal")
    /\ WinnerSide(game_state.point1, game_state.point2) = n % 4
    /\ WinnerSide(game_state.game1, game_state.game2) = (n \div 4) % 6
    /\ WinnerSide(game_state.set1, game_state.set2) = n \div 24
    /\ LoserSide(game_state.score1, game_state.score2) = 0
    /\ LoserSide(game_state.point1, game_state.point2) = 0
    /\ LoserSide(game_state.game1, game_state.game2) = 0
    /\ LoserSide(game_state.set1, game_state.set2) = 0
    /\ game_state.matchwon <=> n = 48

\* The 49th point and every later one is refused and changes nothing.
LoveRejected ==
    PointsWon > 48 =>
        /\ ~response.body.success
        /\ response.status = 400
        /\ game_state = last.pre
        /\ match_storage = last.pre_storage

\* The claim with the labels it names.
LoveMatchRuns(label) ==
    /\ PointsWon = 0 => FreshSet(game_state) /\ game_state.point1 = 0 /\ game_state.point2 = 0
    /\ PointsWon > 0 =>
           /\ LoveScore(IF PointsWon > 48 THEN 48 ELSE PointsWon)
           /\ game_state.sethistory = LoveHistory(PointsWon, label)
    /\ PointsWon \in 1..48 => response.body.success
    /\ LoveRejected

\* C30 as stated: from a freshly armed match, when one team wins every
\* point, the display runs 15, 30, 40 and the 4th point gives 0-0 with that
\* team's games +1; the 24th point ends the first set 6-0, the 48th point
\* ends the match with sets 2-0, sethistory ['6-0', '6-0'] and matchwon true;
\* the scoring mode stays normal throughout and a 49th point is rejected.
C30_LoveMatchWinnerFirst == LoveMatchRuns(LoveSetWinnerFirst)

\* C30, amended: the same, with sethistory ['6-0', '6-0'] when the team is
\* black and ['0-6', '0-6'] when the team is yellow.
C30_LoveMatchBlackFirst == LoveMatchRuns(LoveSetBlackFirst)

\* C30 witness: yellow won all 48 points and the 49th was refused.
C30_Witness ==
    /\ PointsWon = 49 /\ last.op = "addpoint" /\ last.arg = "yellow"
    /\ game_state.matchwon /\ game_state.set2 = 2 /\ game_state.set1 = 0
    /\ game_state.sethistory = <<<<"0", "-", "6">>, <<"0", "-", "6">>>>
    /\ ~response.body.success

\* The win rule of a scoring mode: 4 points in normal mode, 7 in a
\* tie-break, 10 in a super tie-break, with a lead of 2.
ClaimedWinAt(mode) == IF mode = "normal" THEN 4 ELSE IF mode = "tiebreak" THEN 7 ELSE 10

ClaimedWin(p, q, mode) == p >= ClaimedWinAt(mode) /\ p - q >= 2

\* A dict in which a team holds a win nobody awarded.
UnawardedWin(gs) ==
    \/ ClaimedWin(gs.point1, gs.point2, gs.mode)
    \/ ClaimedWin(gs.point2, gs.point1, gs.mode)

\* The last call was a successful /addpoint by the team that was behind.
TrailingTeamScored ==
    /\ last.op = "addpoint" /\ response.body.success
    /\ PointsOf(last.pre, last.arg) < PointsOf(last.pre, Opponent(last.arg))

\* C31: no state between operations holds an un-awarded win: in normal mode
\* no team has 4 or more points with a lead of 2 or more (7 in a tie-break,
\* 10 in a super tie-break), also after a subtract from the trailing team,
\* and a point scored by the trailing team leaves no such state behind.
C31_NoUnawardedWin ==
    /\ ~UnawardedWin(game_state)
    /\ TrailingTeamScored => ~UnawardedWin(game_state)

\* The last call was the /addpoint that won the match.
MatchWinningPoint == AddOK /\ ~last.pre.matchwon /\ game_state.matchwon

\* The last call emitted a side-switch event.
SideSwitchSignalled ==
    \E i \in 1..Len(emitted) : emitted[i].event = "sideswitchrequired"

\* C35: once the match is won no side switch is pending or signalled: in
\* every state with matchwon true shouldswitchsides is false, and the point
\* that wins the match emits no sideswitchrequired event, in basic as well
\* as competition and lock mode, for 2-0 and for 2-1 results.
C35_NoSwitchOnceWon ==
    /\ game_state.matchwon => ~game_state.shouldswitchsides
    /\ MatchWinningPoint => ~SideSwitchSignalled

\* The entries of matchhistory tagged with one of `actions` for `team`.
Tagged(actions, team) ==
    Cardinality({i \in 1..Len(game_state.matchhistory) :
                    /\ game_state.matchhistory[i].action \in actions
                    /\ game_state.matchhistory[i].team = team})

RECURSIVE PlainSetGames(_, _)
\* The games `team` won in the sets whose label is plain ("6-4"): the sum of
\* its side of those labels.
PlainSetGames(labels, team) ==
    IF Len(labels) = 0 THEN 0
    ELSE (IF Contains(Head(labels), "(") THEN 0
          ELSE LabelGames(Head(labels), IF team = "black" THEN 1 ELSE 2))
         + PlainSetGames(Tail(labels), team)

\* The points `team` won in the match one team wins at love: every point
\* that was accepted, for the team that posted them.
PointsPlayedBy(team) ==
    IF last.op = "addpoint" /\ last.arg = team
    THEN (IF PointsWon > 48 THEN 48 ELSE PointsWon)
    ELSE 0

\* C36: at match completion the totals of the statistics agree with play:
\* for each team the number of matchhistory entries tagged 'game', which is
\* the stored totalgameswon, equals the number of normal games the team won
\* (the sum of its game counts over the plain set labels), and the number
\* tagged 'point' or 'game' equals the number of points it won outside
\* tie-breaks, the match-winning point included.
C36_TotalsAgreeWithPlay ==
    game_state.matchwon /\ match_storage.matchcompleted =>
        \A team \in Teams :
            /\ match_storage.matchdata.totalgameswon[team] = Tagged({"game"}, team)
            /\ Tagged({"game"}, team) = PlainSetGames(game_state.sethistory, team)
            /\ Tagged({"point", "game"}, team) = PointsPlayedBy(team)

\* Games are 6-6.
SixAll(gs) == gs.game1 = 6 /\ gs.game2 = 6

\* C37: in every reachable state the scoring mode is tiebreak or
\* supertiebreak only while games are 6-6, tiebreak only with at most one
\* set played and supertiebreak only at one set all; and while the match is
\* not won and the mode is normal, each games counter is at most 6 and games
\* are never 6-6.
C37_ModeFollowsGames ==
    /\ game_state.mode \in {"normal", "tiebreak", "supertiebreak"}
    /\ game_state.mode # "normal" => SixAll(game_state)
    /\ game_state.mode = "tiebreak" => game_state.set1 + game_state.set2 <= 1
    /\ game_state.mode = "supertiebreak" => game_state.set1 = 1 /\ game_state.set2 = 1
    /\ ~game_state.matchwon /\ game_state.mode = "normal" =>
           /\ game_state.game1 <= 6 /\ game_state.game2 <= 6
           /\ ~SixAll(game_state)

\* C37 witness: a game made it 6-6 at one set all and the decider began.
C37_Witness ==
    /\ AddOK /\ last.pre.mode = "normal" /\ ~SixAll(last.pre)
    /\ game_state.mode = "supertiebreak" /\ SixAll(game_state)
    /\ game_state.set1 = 1 /\ game_state.set2 = 1

\* The sets counted in a dict.
SetsPlayed(gs) == gs.set1 + gs.set2

\* The labels the last call appended to sethistory, older labels untouched.
LabelsAppended ==
    IF /\ Len(game_state.sethistory) >= Len(last.pre.sethistory)
       /\ SubSeq(game_state.sethistory, 1, Len(last.pre.sethistory)) = last.pre.sethistory
    THEN Len(game_state.sethistory) - Len(last.pre.sethistory)
    ELSE -1

\* C38: in every reachable state the number of labels in sethistory equals
\* set1 + set2 and is at most 3; each /addpoint appends at most one label,
\* and appends one exactly when it increments a sets counter.
C38_OneLabelPerSet ==
    /\ Len(game_state.sethistory) = SetsPlayed(game_state)
    /\ Len(game_state.sethistory) <= 3
    /\ last.op = "addpoint" =>
           /\ LabelsAppended \in {0, 1}
           /\ LabelsAppended = 1 <=> SetsPlayed(game_state) = SetsPlayed(last.pre) + 1
           /\ LabelsAppended = 0 <=> SetsPlayed(game_state) = SetsPlayed(last.pre)

\* C38 witness: a tie-break point won the third set and its label is the
\* third of sethistory.
C38_Witness ==
    /\ AddOK /\ last.pre.mode = "supertiebreak"
    /\ SetsPlayed(last.pre) = 2 /\ SetsPlayed(game_state) = 3
    /\ Len(game_state.sethistory) = 3 /\ LabelsAppended = 1

\* The game modes the claim names.
ClaimedGameModes == {"basic", "competition", "lock"}

\* The last call left gamemode and scoreboard_active as they were.
ArmingUntouched ==
    /\ game_state.gamemode = last.pre.gamemode
    /\ game_state.scoreboard_active = last.pre.scoreboard_active

\* C39: in every reachable state scoreboard_active is true exactly when
\* gamemode is one of basic, competition, lock: a successful /setgamemode
\* sets both, /resetmatch clears both, no other call changes either, and the
\* guard on scoreboard_active rejects exactly the point calls made while no
\* game mode is selected.
C39_ArmedIffModeSelected ==
    /\ game_state.scoreboard_active <=> game_state.gamemode \in ClaimedGameModes
    /\ game_state.gamemode \in ClaimedGameModes \cup {None}
    /\ last.op = "setgamemode" /\ response.body.success =>
           game_state.gamemode = last.arg /\ game_state.scoreboard_active
    /\ last.op = "resetmatch" =>
           game_state.gamemode = None /\ ~game_state.scoreboard_active
    /\ ~(last.op = "setgamemode" /\ response.body.success) /\ last.op # "resetmatch" =>
           ArmingUntouched
    /\ PointCall => (response.body.blocked <=> last.pre.gamemode = None)

\* C39 witness: a point was posted while the dict is as /resetmatch leaves
\* it, no game mode selected, and the guard refused it.
C39_Witness ==
    /\ PointCall /\ response.body.blocked
    /\ game_state.gamemode = None /\ ~game_state.scoreboard_active
    /\ last.pre = ResetGameState

\* The last call was a /setgamemode that succeeded.
ModeSet == last.op = "setgamemode" /\ response.body.success

\* C40: a successful /setgamemode, in any state (mid-game, in a tie-break,
\* after the match is won), changes only gamemode, scoreboard_active and,
\* for basic at games 0-0 with no start-of-set switch done yet, the
\* side-switch flags; points, display score, games, sets, scoring mode,
\* sethistory, matchhistory, matchwon and winner are unchanged.
C40_SetGameModeFrame ==
    ModeSet =>
        /\ ScoreFields(game_state) = ScoreFields(last.pre)
        /\ game_state.matchwon = last.pre.matchwon
        /\ game_state.winner = last.pre.winner
        /\ SwitchFlags(game_state) # SwitchFlags(last.pre) =>
               /\ last.arg = "basic"
               /\ last.pre.game1 = 0 /\ last.pre.game2 = 0
               /\ ~last.pre.initial_switch_done
        /\ game_state = [last.pre EXCEPT !.gamemode = game_state.gamemode,
                                         !.scoreboard_active = game_state.scoreboard_active,
                                         !.shouldswitchsides = game_state.shouldswitchsides,
                                         !.initial_switch_done = game_state.initial_switch_done,
                                         !.totalgamesinset = game_state.totalgamesinset]

\* C40 witness: in the middle of a game basic mode was selected over
\* another mode, after a set had ended and before its first game was won,
\* and the start-of-set switch was raised.
C40_Witness ==
    /\ ModeSet /\ last.arg = "basic" /\ last.pre.gamemode = "competition"
    /\ last.pre.point1 + last.pre.point2 > 0
    /\ SetsPlayed(last.pre) > 0
    /\ ~last.pre.shouldswitchsides /\ game_state.shouldswitchsides

\* The same in a tie-break: another mode was selected with tie-break points
\* on the board.
C40_WitnessTiebreak ==
    /\ ModeSet /\ last.pre.mode = "tiebreak" /\ last.pre.gamemode # last.arg
    /\ last.pre.point1 + last.pre.point2 > 0

\* The server counts the points posted to it.
ServerScores(gs) == gs.scoreboard_active /\ ~gs.matchwon

\* The last step was a sensor hit that the server scored and the page
\* admitted as a sensor input.
ScoredAndRouted == Admitted /\ AddOK /\ last.arg = seen.team

\* What the page did with an event the server scored: it was routed in the
\* ACTIVE phase.
ScoredEventsRoutedActive == ScoredAndRouted => PhaseOf(seen.pre) = "ACTIVE"

\* C32: on the server and the page together, scoring is armed on the server
\* only while the page routes in the ACTIVE phase: no event is both scored
\* by the server and routed by the page as a splash dismissal, a mode
\* selection or a winner reset, also between the moment /setgamemode
\* succeeds and the moment the page sets isScoreboardActive.
C32_ScoredOnlyWhenActive ==
    /\ ServerScores(game_state) => PhaseOf(client) = "ACTIVE"
    /\ ScoredEventsRoutedActive

\* selectMode was called in the last callback, for whichever mode.
SelectModeCalled == \E mode \in ClientModes : ModeSelected(mode)

\* A mode was already selected for the session when the last callback ran:
\* selectMode sets gameMode and only the reset clears it.
SessionHasMode == seen.pre.gameMode # None

\* C33: between two resets the game mode is selected at most once: once
\* selectMode has been called for a session, no admitted sensor event, team
\* click or pending mode-detection timer calls selectMode again or changes
\* gameMode before the next reset.
C33_ModeSelectedOnce ==
    SessionHasMode =>
        /\ ~SelectModeCalled
        /\ client.gameMode \in {seen.pre.gameMode, None}

\* The last callback was a sensor event on the mode-selection screen that
\* made detectModeFromSensor select competition.
CompetitionDetected == ModeSelectEvent /\ ModeSelected("competition")

\* C34: mode detection selects competition only when events of both teams
\* were admitted less than DUAL_SENSOR_WINDOW apart: an event of the second
\* team that arrives after the window has elapsed since the first team's
\* event never yields competition by pairing with that stale buffered event.
C34_CompetitionWithinWindow ==
    CompetitionDetected => RecentEvent(seen.pre, Other(seen.team))

====
